---- MODULE Spec2Model ----
(***************************************************************************)
(* Coastal blue carbon (coastal_blue_carbon2.py): execute() and            *)
(* execute_transition_analysis() run with a synchronous task graph         *)
(* (n_workers = -1), so every add_task call computes its raster at once.   *)
(* SchedSpec runs the same nodes on a task graph with workers and calls    *)
(* execute() a second time on the workspace.                               *)
(*                                                                         *)
(* Number representation.  Carbon rasters are float32 in the program; here *)
(* a carbon value is an integer count of 1/Q tonnes (Q = 2^QBits), and a   *)
(* product of two such values is divided by Q.  Half-life rasters hold     *)
(* whole years.  Year-of-disturbance rasters are uint16.  The nodata       *)
(* sentinels are single reserved values, as in the program.                *)
(***************************************************************************)
EXTENDS Integers, Sequences, FiniteSets, TLC

\* ------------------------------------------------------------------ bounds
NPixels == 2
FirstYear == 2000
Horizon == 4
MaxTransitions == 2

\* ------------------------------------------------------------- constants
QBits == 10
Q == 2^QBits
NODATA_FLOAT32 == -(2^30)
NODATA_UINT16 == 65535
UINT16 == 2^16
LULC_NODATA == 255
NoneVal == -1

POOL_SOIL == "soil"
POOL_BIOMASS == "biomass"
POOL_LITTER == "litter"

Pixels == 1..NPixels

\* ------------------------------------------------------ model inputs
\* Landcover codes of the biophysical table and the rows it holds
\* (utils.build_lookup_from_csv(args['biophysical_table_path'], 'code')).
Codes == {1, 2}

BiophysicalTable ==
    [c \in Codes |->
        IF c = 1
        THEN [lulc_class |-> "mangrove",
              soil_initial |-> 8 * Q, biomass_initial |-> 4 * Q,
              litter_initial |-> 2 * Q,
              soil_yearly_accumulation |-> 2 * Q,
              biomass_yearly_accumulation |-> 1 * Q,
              litter_yearly_accumulation |-> 1 * Q,
              soil_half_life |-> 1, biomass_half_life |-> 0,
              soil_low_impact_disturb |-> Q \div 4,
              biomass_low_impact_disturb |-> Q \div 2,
              soil_high_impact_disturb |-> Q \div 2,
              biomass_high_impact_disturb |-> Q]
        ELSE [lulc_class |-> "aquaculture",
              soil_initial |-> 4 * Q, biomass_initial |-> 2 * Q,
              litter_initial |-> 0,
              soil_yearly_accumulation |-> 1 * Q,
              biomass_yearly_accumulation |-> 3 * Q,
              litter_yearly_accumulation |-> 0,
              soil_half_life |-> 1, biomass_half_life |-> 1,
              soil_low_impact_disturb |-> Q \div 4,
              biomass_low_impact_disturb |-> Q \div 2,
              soil_high_impact_disturb |-> Q \div 2,
              biomass_high_impact_disturb |-> Q]]

\* The landcover transition table (args['landcover_transitions_table']):
\* row = from class, column = to class, cell = label or "NaN" when empty.
TransitionTable ==
    [ft \in Codes \X Codes |->
        CASE ft = <<1, 1>> -> "accum"
          [] ft = <<1, 2>> -> "high-impact-disturb"
          [] ft = <<2, 1>> -> "accum"
          [] OTHER         -> "low-impact-disturb"]

\* The same classes with other labels: an empty cell, an accumulation where
\* TransitionTable disturbs, a disturbance where it accumulates, and a label
\* that is neither a disturbance nor "accum".
RelabelledTransitionTable ==
    [ft \in Codes \X Codes |->
        CASE ft = <<1, 1>> -> "NaN"
          [] ft = <<1, 2>> -> "accum"
          [] ft = <<2, 1>> -> "high-impact-disturb"
          [] OTHER         -> "restore"]

\* The transition tables a run may be given: the lulc-class names of the
\* table's rows and columns, and its cells.  The last one names a class the
\* biophysical table does not have.
LandcoverTransitionTables ==
    {[lulc_classes |-> {"mangrove", "aquaculture"},
      cells |-> TransitionTable],
     [lulc_classes |-> {"mangrove", "aquaculture"},
      cells |-> RelabelledTransitionTable],
     [lulc_classes |-> {"mangrove", "aquaculture", "parking lot"},
      cells |-> TransitionTable]}

\* values[f'{pool}-initial'] and friends: a column of the biophysical table.
Field(row, pool, what) ==
    CASE what = "initial" ->
            (CASE pool = POOL_SOIL -> row.soil_initial
               [] pool = POOL_BIOMASS -> row.biomass_initial
               [] OTHER -> row.litter_initial)
      [] what = "yearly-accumulation" ->
            (CASE pool = POOL_SOIL -> row.soil_yearly_accumulation
               [] pool = POOL_BIOMASS -> row.biomass_yearly_accumulation
               [] OTHER -> row.litter_yearly_accumulation)
      [] what = "half-life" ->
            (IF pool = POOL_SOIL THEN row.soil_half_life
             ELSE row.biomass_half_life)
      [] what = "low-impact-disturb" ->
            (IF pool = POOL_SOIL THEN row.soil_low_impact_disturb
             ELSE row.biomass_low_impact_disturb)
      [] OTHER ->
            (IF pool = POOL_SOIL THEN row.soil_high_impact_disturb
             ELSE row.biomass_high_impact_disturb)

\* ------------------------------------------------ transition parameters
\* field_value.endswith('disturb')
EndsWithDisturb(label) ==
    label \in {"low-impact-disturb", "high-impact-disturb"}

\* _read_transition_matrix: the four sparse (from, to) matrices.  A sparse
\* matrix reads 0 where nothing was stored.
DisturbanceEntry(table, bio, pool, from, to) ==
    IF table[<<from, to>>] # "NaN" /\ EndsWithDisturb(table[<<from, to>>])
    THEN Field(bio[from], pool, table[<<from, to>>])
    ELSE 0

\* An accumulation matrix populated for every non-empty cell, whatever its
\* label.
AccumulationEntry_AnyLabel(table, bio, pool, from, to) ==
    IF table[<<from, to>>] # "NaN"
    THEN Field(bio[from], pool, "yearly-accumulation")
    ELSE 0

AccumulationEntry(table, bio, pool, from, to) ==
    IF table[<<from, to>>] # "NaN" /\ ~EndsWithDisturb(table[<<from, to>>])
       /\ table[<<from, to>>] = "accum"
    THEN Field(bio[from], pool, "yearly-accumulation")
    ELSE 0

\* lulc_class_to_lucode[...] raises KeyError for a class name the
\* biophysical table does not list; the function logs nothing.
_read_transition_matrix(table, bio) ==
    [raises |->
        IF table.lulc_classes \subseteq {bio[c].lulc_class : c \in Codes}
        THEN "" ELSE "KeyError: lulc-class",
     warnings |-> <<>>,
     disturbance |->
        [pool \in {POOL_SOIL, POOL_BIOMASS} |->
            [ft \in Codes \X Codes |->
                DisturbanceEntry(table.cells, bio, pool, ft[1], ft[2])]],
     accumulation |->
        [pool \in {POOL_SOIL, POOL_BIOMASS} |->
            [ft \in Codes \X Codes |->
                AccumulationEntry(table.cells, bio, pool, ft[1], ft[2])]]]

\* ------------------------------------------------------ raster algebra
\* pygeoprocessing.reclassify_raster as execute calls it: landcover nodata
\* maps to the target nodata, a code maps to its table value.
reclassify_raster(lulc, bio, pool, what) ==
    [p \in Pixels |->
        IF lulc[p] = LULC_NODATA THEN NODATA_FLOAT32
        ELSE Field(bio[lulc[p]], pool, what)]

\* _reclassify_accumulation_transition and _reclassify_disturbance_magnitude
\* share one body: index the sparse matrix by (from, to) where both are valid.
_reclassify_transition(from_raster, to_raster, matrix) ==
    [p \in Pixels |->
        IF from_raster[p] # LULC_NODATA /\ to_raster[p] # LULC_NODATA
        THEN matrix[<<from_raster[p], to_raster[p]>>]
        ELSE NODATA_FLOAT32]

_reclassify_accumulation_transition(from_raster, to_raster, matrix) ==
    _reclassify_transition(from_raster, to_raster, matrix)

_reclassify_disturbance_magnitude(from_raster, to_raster, matrix) ==
    _reclassify_transition(from_raster, to_raster, matrix)

\* evaluate_raster_calculator_expression("magnitude*stocks", ...): nodata in
\* either operand gives nodata; the product of two fixed-point values.
MagnitudeTimesStocks(magnitude, stocks) ==
    [p \in Pixels |->
        IF magnitude[p] = NODATA_FLOAT32 \/ stocks[p] = NODATA_FLOAT32
        THEN NODATA_FLOAT32
        ELSE (magnitude[p] * stocks[p]) \div Q]

\* _calculate_accumulation_from_baseline
_calculate_accumulation_from_baseline(baseline, accum, n_years) ==
    [p \in Pixels |->
        IF baseline[p] # NODATA_FLOAT32 /\ accum[p] # NODATA_FLOAT32
        THEN baseline[p] + accum[p] * n_years
        ELSE NODATA_FLOAT32]

\* _calculate_accumulation_over_time
_calculate_accumulation_over_time(biomass, soil, litter, n_years) ==
    [p \in Pixels |->
        IF biomass[p] # NODATA_FLOAT32 /\ soil[p] # NODATA_FLOAT32
           /\ litter[p] # NODATA_FLOAT32
        THEN (biomass[p] + soil[p] + litter[p]) * n_years
        ELSE NODATA_FLOAT32]

\* A tracker that forgets: every transition starts from an empty raster, so
\* a pixel not disturbed at the current transition loses its year.
_track_latest_transition_year_Forgetful(volume, known, current_transition_year) ==
    [p \in Pixels |->
        IF volume[p] # NODATA_FLOAT32 /\ volume[p] # 0
        THEN current_transition_year
        ELSE NODATA_UINT16]

\* A tracker that takes every valid volume, 0 included, for a disturbance.
_track_latest_transition_year_AnyValid(volume, known, current_transition_year) ==
    [p \in Pixels |->
        IF volume[p] # NODATA_FLOAT32
        THEN current_transition_year
        ELSE IF known # <<>> /\ known[p] # NODATA_UINT16
             THEN known[p]
             ELSE NODATA_UINT16]

\* _track_latest_transition_year; known = <<>> stands for the None passed at
\* the first transition.
_track_latest_transition_year(volume, known, current_transition_year) ==
    [p \in Pixels |->
        IF volume[p] # NODATA_FLOAT32 /\ volume[p] # 0
        THEN current_transition_year
        ELSE IF known # <<>> /\ known[p] # NODATA_UINT16
             THEN known[p]
             ELSE NODATA_UINT16]

\* A net sequestration that is nodata wherever either input is.
_calculate_net_sequestration_EitherNodata(accumulation, emissions) ==
    [p \in Pixels |->
        IF emissions[p] = NODATA_FLOAT32 \/ accumulation[p] = NODATA_FLOAT32
        THEN NODATA_FLOAT32
        ELSE emissions[p] * (-1)]

\* _calculate_net_sequestration: accumulation is added first, then every
\* pixel with valid emissions is overwritten with -emissions; nodata only
\* where neither input is valid.
_calculate_net_sequestration(accumulation, emissions) ==
    [p \in Pixels |->
        IF emissions[p] # NODATA_FLOAT32 THEN emissions[p] * (-1)
        ELSE IF accumulation[p] # NODATA_FLOAT32 THEN 0 + accumulation[p]
        ELSE NODATA_FLOAT32]

\* 0.5 ** (n / half_life) in units of 1/Q.  n is a uint16 count of years.  A
\* half-life equal to the float32 nodata value makes the exponent vanish.
Pow05(n, half_life) ==
    IF half_life = NODATA_FLOAT32 THEN Q
    ELSE IF n \div half_life > QBits THEN 0
    ELSE Q \div (2 ^ (n \div half_life))

\* Emissions without the final `emissions_matrix[zero_half_life] = 0.0`:
\* pixels of half-life 0 keep the nodata fill.
_calculate_emissions_NoZeroing(volume, year_of_last, half_life, current_year) ==
    [p \in Pixels |->
        LET n_years_elapsed == (current_year - year_of_last[p]) % UINT16
        IN  IF /\ volume[p] # NODATA_FLOAT32
               /\ year_of_last[p] # NODATA_UINT16
               /\ half_life[p] # 0
            THEN (volume[p] *
                    (Pow05((n_years_elapsed - 1) % UINT16, half_life[p])
                     - Pow05(n_years_elapsed, half_life[p]))) \div Q
            ELSE NODATA_FLOAT32]

\* Emissions with n_years_elapsed - 1 computed on signed integers: in the
\* year of the disturbance the first power is 0.5^(-1/half_life).
_calculate_emissions_SignedYears(volume, year_of_last, half_life, current_year) ==
    [p \in Pixels |->
        LET zero_half_life == half_life[p] = 0
            valid == /\ volume[p] # NODATA_FLOAT32
                     /\ year_of_last[p] # NODATA_UINT16
                     /\ ~zero_half_life
            n_years_elapsed == (current_year - year_of_last[p]) % UINT16
        IN  IF zero_half_life THEN 0
            ELSE IF valid
            THEN (volume[p] *
                    ((IF n_years_elapsed = 0 /\ half_life[p] > 0
                      THEN Q * (2 ^ (1 \div half_life[p]))
                      ELSE Pow05((n_years_elapsed - 1) % UINT16,
                                 half_life[p]))
                     - Pow05(n_years_elapsed, half_life[p]))) \div Q
            ELSE NODATA_FLOAT32]

\* _calculate_emissions.  n_years_elapsed is computed on the uint16
\* year-of-disturbance array, so n_years_elapsed - 1 wraps at 0.
_calculate_emissions(volume, year_of_last, half_life, current_year) ==
    [p \in Pixels |->
        LET zero_half_life == half_life[p] = 0
            valid == /\ volume[p] # NODATA_FLOAT32
                     /\ year_of_last[p] # NODATA_UINT16
                     /\ ~zero_half_life
            n_years_elapsed == (current_year - year_of_last[p]) % UINT16
        IN  IF zero_half_life THEN 0
            ELSE IF valid
            THEN (volume[p] *
                    (Pow05((n_years_elapsed - 1) % UINT16, half_life[p])
                     - Pow05(n_years_elapsed, half_life[p]))) \div Q
            ELSE NODATA_FLOAT32]

\* _sum_n_rasters, one pixel: the validity mask is accumulated over the list
\* (valid_pixels &= ...), a raster is added only where the mask still holds.
RECURSIVE SumPixel(_, _, _, _, _, _)
SumPixel(rasters, p, i, valid, touched, sum) ==
    IF i > Len(rasters)
    THEN [valid |-> valid, touched |-> touched, sum |-> sum]
    ELSE LET v == valid /\ rasters[i][p] # NODATA_FLOAT32
         IN  SumPixel(rasters, p, i + 1, v, touched \/ v,
                      IF v THEN sum + rasters[i][p] ELSE sum)

_sum_n_rasters(rasters, allow_pixel_stacks_with_nodata) ==
    [p \in Pixels |->
        LET r == SumPixel(rasters, p, 1, TRUE, FALSE, 0)
        IN  IF allow_pixel_stacks_with_nodata
            THEN (IF r.touched THEN r.sum ELSE NODATA_FLOAT32)
            ELSE (IF r.valid THEN r.sum ELSE NODATA_FLOAT32)]


\* _extract_transitions_from_table: rows is the table in file order, each
\* row <<transition_year, raster_path>>; output_dict[int(index)] =
\* row['raster_path'] keeps the last row of a year.  The function raises
\* nothing.
RECURSIVE TransitionsDict(_, _)
TransitionsDict(rows, output_dict) ==
    IF rows = <<>> THEN output_dict
    ELSE TransitionsDict(Tail(rows),
                         (Head(rows)[1] :> Head(rows)[2]) @@ output_dict)

_extract_transitions_from_table(rows) ==
    [raises |-> "", output_dict |-> TransitionsDict(rows, <<>>)]

\* Nothing is handed to a task graph with workers: the synchronous runs.
NoPlan == [nodes |-> <<>>, joined |-> 0, files |-> <<>>]

\* No helper function has been called on its own.
NoCall == [func |-> "", args |-> <<>>]

\* ------------------------------------------------------------- state
VARIABLES
    args,       \* the arguments execute() was called with
    pc,         \* where the run is: "start", "reclassify", "analysis", "years",
                \* "total", "done", "failed"; with workers "start",
                \* "baseline", "analysis", "done", "failed"
    error,      \* the exception that ended the run, "" if none
    files,      \* raster path -> raster, every raster written so far
    tasks,      \* the nodes submitted to the task graph, in submission order
    todo,       \* transition years execute() still has to reclassify (sorted)
    exec_prior_transition_year,  \* prior_transition_year of execute()
    year,                        \* loop variable of execute_transition_analysis
    final_year,
    current_transition_year,
    prior_transition_year,
    handles,    \* task handles kept from one loop iteration to the next
    summary_net_sequestration_raster_paths,
    summary_net_sequestration_tasks,
    call,       \* the helper function last called on its own, and its arguments
    result,     \* what that call returned
    plan,       \* the nodes execute() hands to a task graph with workers
    started,    \* names of the nodes whose function a worker has begun
    completed,  \* names of the nodes that have completed
    cache,      \* the task graph's record of the nodes already computed
    executions, \* how many times execute() has been called on the workspace
    log         \* what LOGGER.warning and LOGGER.error have recorded

vars == <<args, pc, error, files, tasks, todo, exec_prior_transition_year,
          year, final_year, current_transition_year, prior_transition_year,
          handles, summary_net_sequestration_raster_paths,
          summary_net_sequestration_tasks, log, call, result, plan,
          started, completed, cache, executions>>

Years == FirstYear..(FirstYear + Horizon)
LulcValues == <<1, 2, LULC_NODATA>>
\* The land-cover snapshots a run is given: pixel p of snapshot raster k holds
\* value (p + k) mod 3 of LulcValues, so every pixel takes every value and
\* neighbouring pixels differ.
LulcRasters ==
    {[p \in Pixels |-> LulcValues[((p + k) % 3) + 1]] : k \in 0..2}

\* ------------------------------------------------------------- paths
\* A raster path: directory, file-name pattern, pool, year, end year.
Path(dir, kind, pool, y) == <<dir, kind, pool, y, 0>>
IntervalPath(kind, start_year, end_year) ==
    <<"output", kind, "", start_year, end_year>>
AlignedPath(a, y) ==
    IF y = a.baseline_lulc_year
    THEN Path("intermediate", "aligned_lulc_baseline", "", y)
    ELSE Path("intermediate", "aligned_lulc_transition", "", y)
StockPath(pool, y) == Path("intermediate", "stocks", pool, y)
AccumulationPath(pool, y) == Path("intermediate", "accumulation", pool, y)
HalfLifePath(pool, y) == Path("intermediate", "halflife", pool, y)
DisturbanceVolPath(pool, y) ==
    Path("intermediate", "disturbance-volume", pool, y)
DisturbanceMagnitudePath(pool, y) ==
    Path("intermediate", "disturbance-magnitude", pool, y)
EmissionsPath(pool, y) == Path("intermediate", "emissions", pool, y)
YearOfDistPath(pool, y) ==
    Path("intermediate", "year-of-latest-disturbance", pool, y)
NetSequestrationPath(pool, y) ==
    Path("intermediate", "net-sequestration", pool, y)
TotalStocksPath(y) == Path("intermediate", "total-carbon-stocks", "", y)
TotalNetSeqAllYearsPath ==
    Path("output", "total-net-carbon-sequestration", "", 0)
\* execute() joins this pattern without the intermediate directory.
BaselinePeriodStockPath(pool, y) == Path("", "stocks", pool, y)

\* ------------------------------------------------------- task graph
\* The graph in synchronous mode: add_task runs the function before it
\* returns.  g.ok turns FALSE when a call raised; nothing is submitted after.
EmptyGraph == [files |-> <<>>, tasks |-> <<>>, ok |-> TRUE]

Task(name, func, reads, targets, deps) ==
    [task_name |-> name, func |-> func, reads |-> reads,
     targets |-> targets, deps |-> deps, writes |-> {}]

\* task_graph.add_task(...): written is what the function writes, given the
\* rasters on disk.  A function whose input raster does not exist
\* raises, and in synchronous mode add_task raises with it.
AddTask(g, task, written) ==
    IF ~g.ok THEN g
    ELSE IF task.reads \subseteq DOMAIN g.files
    THEN LET rasters == written
         IN  [files |-> rasters @@ g.files,
              tasks |-> Append(g.tasks,
                               [task EXCEPT !.writes = DOMAIN rasters]),
              ok |-> TRUE]
    ELSE [files |-> g.files,
          tasks |-> Append(g.tasks, task), ok |-> FALSE]

\* ------------------------------------------------------------ execute
Matrices(a) ==
    _read_transition_matrix(a.landcover_transitions_table, BiophysicalTable)

\* min(transition_years), max(transition_years)
Min(S) == CHOOSE x \in S : \A y \in S : x <= y
Max(S) == CHOOSE x \in S : \A y \in S : x >= y

\* sorted(transitions)
RECURSIVE Sorted(_)
Sorted(S) == IF S = {} THEN <<>> ELSE <<Min(S)>> \o Sorted(S \ {Min(S)})

\* end_of_baseline_period; `elif analysis_year:` is false for None and for 0
EndOfBaselinePeriod(a) ==
    IF a.transitions # {} THEN Min(a.transitions)
    ELSE IF a.analysis_year # NoneVal /\ a.analysis_year # 0
         THEN a.analysis_year
         ELSE a.baseline_lulc_year

AlignmentTaskName == <<"align", "", 0>>

\* pygeoprocessing.align_and_resize_raster_stack: every snapshot is written
\* to its aligned path (the snapshots already share one grid).
AlignmentTask(g, a) ==
    AddTask(g,
        Task(AlignmentTaskName, "align_and_resize_raster_stack", {},
             {AlignedPath(a, y) : y \in {a.baseline_lulc_year}
                                          \cup a.transitions},
             {}),
        LET f == g.files IN
            [path \in {AlignedPath(a, y) :
                         y \in {a.baseline_lulc_year} \cup a.transitions}
                |-> a.lulc[path[4]]])

\* stock_rasters[end_of_baseline_period-1][pool] is assigned before the
\* baseline-period task's args are built, so when that year is the baseline
\* year the task reads the path it is about to write.
BaselinePeriodSource(a, pool) ==
    IF EndOfBaselinePeriod(a) - 1 = a.baseline_lulc_year
    THEN BaselinePeriodStockPath(pool, EndOfBaselinePeriod(a) - 1)
    ELSE StockPath(pool, a.baseline_lulc_year)

BaselinePeriodStockTask(g, a, pool) ==
    AddTask(g,
        Task(<<"baseline-period-stock", pool, EndOfBaselinePeriod(a) - 1>>,
             "_calculate_accumulation_from_baseline",
             {BaselinePeriodSource(a, pool),
              AccumulationPath(pool, a.baseline_lulc_year)},
             {BaselinePeriodStockPath(pool, EndOfBaselinePeriod(a) - 1)},
             {<<"baseline-accumulation", pool, a.baseline_lulc_year>>,
              <<"initial-stock", pool, a.baseline_lulc_year>>}),
        LET f == g.files IN
            BaselinePeriodStockPath(pool, EndOfBaselinePeriod(a) - 1) :>
                _calculate_accumulation_from_baseline(
                    f[BaselinePeriodSource(a, pool)],
                    f[AccumulationPath(pool, a.baseline_lulc_year)],
                    EndOfBaselinePeriod(a) - a.baseline_lulc_year))

\* pool_stock_task: the initial stock of the baseline land cover.
InitialStockTask(g, a, pool) ==
    AddTask(g,
        Task(<<"initial-stock", pool, a.baseline_lulc_year>>,
             "reclassify_raster",
             {AlignedPath(a, a.baseline_lulc_year)},
             {StockPath(pool, a.baseline_lulc_year)},
             {AlignmentTaskName}),
        LET f == g.files IN
            StockPath(pool, a.baseline_lulc_year) :>
                reclassify_raster(f[AlignedPath(a, a.baseline_lulc_year)],
                    BiophysicalTable, pool, "initial"))

\* baseline_accum_tasks[pool]: the yearly accumulation of the baseline land
\* cover.
BaselineAccumulationTask(g, a, pool) ==
    AddTask(g,
        Task(<<"baseline-accumulation", pool, a.baseline_lulc_year>>,
             "reclassify_raster",
             {AlignedPath(a, a.baseline_lulc_year)},
             {AccumulationPath(pool, a.baseline_lulc_year)},
             {AlignmentTaskName}),
        LET f == g.files IN
            AccumulationPath(pool, a.baseline_lulc_year) :>
                reclassify_raster(f[AlignedPath(a, a.baseline_lulc_year)],
                    BiophysicalTable, pool, "yearly-accumulation"))

\* One iteration of `for pool in (POOL_BIOMASS, POOL_LITTER, POOL_SOIL)`.
BaselinePool(g, a, pool) ==
    IF EndOfBaselinePeriod(a) # a.baseline_lulc_year
    THEN BaselinePeriodStockTask(
            BaselineAccumulationTask(InitialStockTask(g, a, pool), a, pool),
            a, pool)
    ELSE BaselineAccumulationTask(InitialStockTask(g, a, pool), a, pool)

BaselinePeriodSummaryPath(a) ==
    IntervalPath("total-net-carbon-sequestration-between",
                 a.baseline_lulc_year, EndOfBaselinePeriod(a))

\* The net sequestration of the baseline period: the yearly accumulation of
\* the three pools times the length of the period.
BaselinePeriodSummaryTask(g, a) ==
    AddTask(g,
        Task(<<"baseline-period-summary", "", a.baseline_lulc_year>>,
             "_calculate_accumulation_over_time",
             {AccumulationPath(POOL_BIOMASS, a.baseline_lulc_year),
              AccumulationPath(POOL_SOIL, a.baseline_lulc_year),
              AccumulationPath(POOL_LITTER, a.baseline_lulc_year)},
             {BaselinePeriodSummaryPath(a)}, {}),
        LET f == g.files IN
            BaselinePeriodSummaryPath(a) :>
                _calculate_accumulation_over_time(
                    f[AccumulationPath(POOL_BIOMASS, a.baseline_lulc_year)],
                    f[AccumulationPath(POOL_SOIL, a.baseline_lulc_year)],
                    f[AccumulationPath(POOL_LITTER, a.baseline_lulc_year)],
                    EndOfBaselinePeriod(a) - a.baseline_lulc_year))

\* execute() from its first line to the baseline-period summary.
ExecuteBaseline(a) ==
    BaselinePeriodSummaryTask(
        BaselinePool(
            BaselinePool(
                BaselinePool(AlignmentTask(EmptyGraph, a), a, POOL_BIOMASS),
                a, POOL_LITTER),
            a, POOL_SOIL),
        a)

NoHandles ==
    [current_disturbance_vol_tasks |-> <<>>,
     current_year_of_disturbance_tasks |-> <<>>,
     prior_stock_tasks |-> <<>>,
     prior_net_sequestration_tasks |-> <<>>]

Fail(exception) ==
    /\ pc' = "failed"
    /\ error' = exception

\* args['discount_rate'], in percent.
DiscountRate == 0

\* The price block of execute(): with a base price and an inflation rate
\* instead of a price table, max(transition_years.keys()) is evaluated on a
\* set, which has no keys().
PricesRaise(a) ==
    IF a.do_economic_analysis /\ ~a.do_price_table
    THEN "AttributeError: 'set' object has no attribute 'keys'"
    ELSE ""

\* prices: the price table, each price divided by
\* (1 + discount_rate) ** (year - baseline_lulc_year).
prices(a) ==
    [y \in DOMAIN a.price_table |->
        (a.price_table[y] * (100 ^ (y - a.baseline_lulc_year)))
            \div ((100 + DiscountRate) ^ (y - a.baseline_lulc_year))]

\* execute() from the table reads on, the baseline year being known.
ExecuteFromTables ==
    IF Matrices(args).raises # ""
    THEN \* the alignment task has run when the tables are read
         /\ files' = AlignmentTask(EmptyGraph, args).files
         /\ tasks' = AlignmentTask(EmptyGraph, args).tasks
         /\ Fail(Matrices(args).raises)
         /\ log' = log \o Matrices(args).warnings
         /\ UNCHANGED <<todo, exec_prior_transition_year>>
    ELSE LET g == ExecuteBaseline(args)
         IN  /\ files' = g.files
             /\ tasks' = g.tasks
             /\ log' = log \o Matrices(args).warnings
             /\ IF g.ok
                THEN /\ pc' = "reclassify"
                     /\ error' = ""
                     /\ todo' = Sorted(args.transitions)
                     /\ exec_prior_transition_year' =
                           args.baseline_lulc_year
                ELSE /\ Fail("task failed")
                     /\ UNCHANGED <<todo, exec_prior_transition_year>>

\* An execute() that looks at the baseline year only after it has submitted
\* the alignment node.
Execute_LateBaselineCheck ==
    /\ pc = "start"
    /\ IF args.baseline_lulc_year = NoneVal
       THEN /\ Fail("ValueError: Baseline lulc year is required.")
            /\ log' = Append(log, "error: baseline_lulc_year is required")
            /\ tasks' = <<Task(AlignmentTaskName,
                               "align_and_resize_raster_stack", {}, {}, {})>>
            /\ UNCHANGED <<files, todo, exec_prior_transition_year>>
       ELSE IF PricesRaise(args) # ""
       THEN /\ Fail(PricesRaise(args))
            /\ UNCHANGED <<log, files, tasks, todo,
                           exec_prior_transition_year>>
       ELSE ExecuteFromTables
    /\ UNCHANGED <<call, result, plan, started, completed, cache, executions>>
    /\ UNCHANGED <<args, year, final_year, current_transition_year,
                   prior_transition_year, handles,
                   summary_net_sequestration_raster_paths,
                   summary_net_sequestration_tasks>>

Execute ==
    /\ pc = "start"
    /\ IF args.baseline_lulc_year = NoneVal
       THEN /\ Fail("ValueError: Baseline lulc year is required.")
            /\ log' = Append(log, "error: baseline_lulc_year is required")
            /\ UNCHANGED <<files, tasks, todo, exec_prior_transition_year>>
       ELSE IF PricesRaise(args) # ""
       THEN /\ Fail(PricesRaise(args))
            /\ UNCHANGED <<log, files, tasks, todo,
                           exec_prior_transition_year>>
       ELSE ExecuteFromTables
    /\ UNCHANGED <<call, result, plan, started, completed, cache, executions>>
    /\ UNCHANGED <<args, year, final_year, current_transition_year,
                   prior_transition_year, handles,
                   summary_net_sequestration_raster_paths,
                   summary_net_sequestration_tasks>>

\* Half-life of (pool, current): reclassified from the prior land cover.
HalfLifeTask(g, a, prior, current, pool) ==
    AddTask(g,
        Task(<<"half-life", pool, current>>, "reclassify_raster",
             {AlignedPath(a, prior)}, {HalfLifePath(pool, current)},
             {AlignmentTaskName}),
        LET f == g.files IN
            HalfLifePath(pool, current) :>
                reclassify_raster(f[AlignedPath(a, prior)],
                    BiophysicalTable, pool, "half-life"))

\* Yearly accumulation of (pool, current) from the transition prior ->
\* current.
AccumulationTransitionTask(g, a, prior, current, pool) ==
    AddTask(g,
        Task(<<"accumulation", pool, current>>,
             "_reclassify_accumulation_transition",
             {AlignedPath(a, prior), AlignedPath(a, current)},
             {AccumulationPath(pool, current)},
             {AlignmentTaskName}),
        LET f == g.files IN
            AccumulationPath(pool, current) :>
                _reclassify_accumulation_transition(
                    f[AlignedPath(a, prior)], f[AlignedPath(a, current)],
                    Matrices(a).accumulation[pool]))

\* Disturbance magnitude of (pool, current) from the transition prior ->
\* current.
DisturbanceMagnitudeTask(g, a, prior, current, pool) ==
    AddTask(g,
        Task(<<"disturbance-magnitude", pool, current>>,
             "_reclassify_disturbance_magnitude",
             {AlignedPath(a, prior), AlignedPath(a, current)},
             {DisturbanceMagnitudePath(pool, current)},
             {AlignmentTaskName}),
        LET f == g.files IN
            DisturbanceMagnitudePath(pool, current) :>
                _reclassify_disturbance_magnitude(
                    f[AlignedPath(a, prior)], f[AlignedPath(a, current)],
                    Matrices(a).disturbance[pool]))

\* One iteration of `for current_transition_year in sorted(transitions)`,
\* inner loop body for one pool of (POOL_BIOMASS, POOL_SOIL).
ReclassifyPool(g, a, prior, current, pool) ==
    DisturbanceMagnitudeTask(
        AccumulationTransitionTask(
            HalfLifeTask(g, a, prior, current, pool),
            a, prior, current, pool),
        a, prior, current, pool)

\* A litter accumulation that goes through the transition matrix like soil
\* and biomass do.
LitterAccumulationTask_ByTransition(g, a, current) ==
    AddTask(g,
        Task(<<"accumulation", POOL_LITTER, current>>, "reclassify_raster",
             {AlignedPath(a, current)},
             {AccumulationPath(POOL_SOIL, current)},
             {AlignmentTaskName}),
        LET f == g.files IN
            AccumulationPath(POOL_LITTER, current) :>
                _reclassify_accumulation_transition(
                    f[AlignedPath(a, current)], f[AlignedPath(a, current)],
                    Matrices(a).accumulation[POOL_SOIL]))

\* A litter accumulation task that declares a raster nothing writes, the
\* litter pool's half-life raster, as its target.
LitterAccumulationTask_UnwrittenTarget(g, a, current) ==
    AddTask(g,
        Task(<<"accumulation", POOL_LITTER, current>>, "reclassify_raster",
             {AlignedPath(a, current)},
             {HalfLifePath(POOL_LITTER, current)},
             {AlignmentTaskName}),
        LET f == g.files IN
            AccumulationPath(POOL_LITTER, current) :>
                reclassify_raster(f[AlignedPath(a, current)],
                    BiophysicalTable, POOL_LITTER, "yearly-accumulation"))

\* Litter accumulation of the transition year.  The task declares
\* yearly_accum_rasters[year][pool] as its target with `pool` left over from
\* the inner loop (POOL_SOIL) and writes the litter raster.
LitterAccumulationTask(g, a, current) ==
    AddTask(g,
        Task(<<"accumulation", POOL_LITTER, current>>, "reclassify_raster",
             {AlignedPath(a, current)},
             {AccumulationPath(POOL_SOIL, current)},
             {AlignmentTaskName}),
        LET f == g.files IN
            AccumulationPath(POOL_LITTER, current) :>
                reclassify_raster(f[AlignedPath(a, current)],
                    BiophysicalTable, POOL_LITTER, "yearly-accumulation"))

\* An iteration that takes the baseline snapshot as the landcover before
\* every transition, as if prior_transition_year were never advanced.
ReclassifyYear_FromBaseline(g, a, prior, current) ==
    LitterAccumulationTask(
        ReclassifyPool(
            ReclassifyPool(g, a, a.baseline_lulc_year, current, POOL_BIOMASS),
            a, a.baseline_lulc_year, current, POOL_SOIL),
        a, current)

\* The whole iteration: both pools, then litter accumulation.
ReclassifyYear(g, a, prior, current) ==
    LitterAccumulationTask(
        ReclassifyPool(
            ReclassifyPool(g, a, prior, current, POOL_BIOMASS),
            a, prior, current, POOL_SOIL),
        a, current)

ReclassifyTransition ==
    /\ pc = "reclassify"
    /\ todo # <<>>
    /\ LET g == ReclassifyYear([files |-> files, tasks |-> tasks, ok |-> TRUE],
                               args, exec_prior_transition_year, Head(todo))
       IN  /\ files' = g.files
           /\ tasks' = g.tasks
           /\ IF g.ok
              THEN UNCHANGED <<pc, error>>
              ELSE Fail("task failed")
    /\ exec_prior_transition_year' = Head(todo)
    /\ todo' = Tail(todo)
    /\ UNCHANGED <<call, result, plan, started, completed, cache, executions>>
    /\ UNCHANGED <<args, log, year, final_year, current_transition_year,
                   prior_transition_year, handles,
                   summary_net_sequestration_raster_paths,
                   summary_net_sequestration_tasks>>

\* ------------------------------------------- execute_transition_analysis
\* stock_rasters[y][pool] and net_sequestration_rasters[y][pool]: the year
\* before the first transition is seeded from execute()'s rasters.
stock_rasters(a, y, pool) ==
    IF y = Min(a.transitions) - 1
    THEN BaselinePeriodStockPath(pool, y)
    ELSE StockPath(pool, y)

net_sequestration_rasters(a, y, pool) ==
    IF y = Min(a.transitions) - 1
    THEN AccumulationPath(pool, a.baseline_lulc_year)
    ELSE NetSequestrationPath(pool, y)

\* A final year that falls back to the first transition year instead of the
\* last one.
FinalYear_FirstTransition(a) ==
    IF a.analysis_year # NoneVal THEN a.analysis_year
    ELSE Min(a.transitions)

\* final_year: int(args['analysis_year']) or, failing that, the last
\* transition year.
FinalYear(a) ==
    IF a.analysis_year # NoneVal THEN a.analysis_year
    ELSE Max(a.transitions)

\* task_graph.join(), the construction of transition_analysis_args and
\* execute_transition_analysis() up to its year loop.
BeginTransitionAnalysis ==
    /\ pc = "reclassify"
    /\ todo = <<>>
    /\ IF EndOfBaselinePeriod(args) = args.baseline_lulc_year
       THEN \* stock_rasters[end_of_baseline_period-1] is an empty dict
            /\ Fail("KeyError")
            /\ UNCHANGED <<year, final_year,
                           summary_net_sequestration_raster_paths>>
       ELSE IF args.transitions = {}
       THEN \* min(transition_years) of an empty set
            /\ Fail("ValueError")
            /\ UNCHANGED <<year, final_year,
                           summary_net_sequestration_raster_paths>>
       ELSE /\ year' = Min(args.transitions)
            /\ final_year' = FinalYear(args)
            /\ pc' = IF Min(args.transitions) <= FinalYear(args)
                     THEN "years" ELSE "total"
            /\ error' = ""
            /\ summary_net_sequestration_raster_paths' =
                  <<BaselinePeriodSummaryPath(args)>>
    /\ UNCHANGED <<call, result, plan, started, completed, cache, executions>>
    /\ UNCHANGED <<args, log, files, tasks, todo, exec_prior_transition_year,
                   current_transition_year, prior_transition_year, handles,
                   summary_net_sequestration_tasks>>

\* A stock task that always adds the soil pool's net sequestration, whatever
\* the pool.
StockTask_SoilNetSequestration(g, a, y, pool, h) ==
    AddTask(g,
        Task(<<"stock", pool, y>>, "_sum_n_rasters",
             {stock_rasters(a, y - 1, pool),
              net_sequestration_rasters(a, y - 1, POOL_SOIL)},
             {StockPath(pool, y)},
             IF y = Min(a.transitions) THEN {}
             ELSE {h.prior_stock_tasks[pool],
                   h.prior_net_sequestration_tasks[pool]}),
        LET f == g.files IN
            StockPath(pool, y) :>
                _sum_n_rasters(
                    <<f[stock_rasters(a, y - 1, pool)],
                      f[net_sequestration_rasters(a, y - 1, POOL_SOIL)]>>,
                    FALSE))

\* A stock task that waits for last year's stock task only, not for last
\* year's net sequestration task.
StockTask_PriorStockOnly(g, a, y, pool, h) ==
    AddTask(g,
        Task(<<"stock", pool, y>>, "_sum_n_rasters",
             {stock_rasters(a, y - 1, pool),
              net_sequestration_rasters(a, y - 1, pool)},
             {StockPath(pool, y)},
             IF y = Min(a.transitions) THEN {}
             ELSE {h.prior_stock_tasks[pool]}),
        LET f == g.files IN
            StockPath(pool, y) :>
                _sum_n_rasters(
                    <<f[stock_rasters(a, y - 1, pool)],
                      f[net_sequestration_rasters(a, y - 1, pool)]>>,
                    FALSE))

\* Stock of (pool, y): last year's stock plus last year's net sequestration.
StockTask(g, a, y, pool, h) ==
    AddTask(g,
        Task(<<"stock", pool, y>>, "_sum_n_rasters",
             {stock_rasters(a, y - 1, pool),
              net_sequestration_rasters(a, y - 1, pool)},
             {StockPath(pool, y)},
             IF y = Min(a.transitions) THEN {}
             ELSE {h.prior_stock_tasks[pool],
                   h.prior_net_sequestration_tasks[pool]}),
        LET f == g.files IN
            StockPath(pool, y) :>
                _sum_n_rasters(
                    <<f[stock_rasters(a, y - 1, pool)],
                      f[net_sequestration_rasters(a, y - 1, pool)]>>,
                    FALSE))

\* A disturbance volume taken from the stock of the transition year itself
\* instead of the year before.
DisturbanceVolTask_CurrentStock(g, a, y, pool, h) ==
    AddTask(g,
        Task(<<"disturbance-volume", pool, y>>,
             "evaluate_raster_calculator_expression",
             {DisturbanceMagnitudePath(pool, y), StockPath(pool, y)},
             {DisturbanceVolPath(pool, y)},
             IF y = Min(a.transitions) THEN {}
             ELSE {h.prior_stock_tasks[pool]}),
        LET f == g.files IN
            DisturbanceVolPath(pool, y) :>
                MagnitudeTimesStocks(f[DisturbanceMagnitudePath(pool, y)],
                                     f[StockPath(pool, y)]))

\* Disturbance volume of (pool, y), y a transition year.
DisturbanceVolTask(g, a, y, pool, h) ==
    AddTask(g,
        Task(<<"disturbance-volume", pool, y>>,
             "evaluate_raster_calculator_expression",
             {DisturbanceMagnitudePath(pool, y),
              stock_rasters(a, y - 1, pool)},
             {DisturbanceVolPath(pool, y)},
             IF y = Min(a.transitions) THEN {}
             ELSE {h.prior_stock_tasks[pool]}),
        LET f == g.files IN
            DisturbanceVolPath(pool, y) :>
                MagnitudeTimesStocks(f[DisturbanceMagnitudePath(pool, y)],
                                     f[stock_rasters(a, y - 1, pool)]))

\* Year of latest disturbance of (pool, y), y a transition year; pty is
\* prior_transition_year.
YearOfDisturbanceTask(g, a, y, pool, pty) ==
    AddTask(g,
        Task(<<"year-of-disturbance", pool, y>>,
             "_track_latest_transition_year",
             {DisturbanceVolPath(pool, y)} \cup
                 (IF y = Min(a.transitions) THEN {}
                  ELSE {YearOfDistPath(pool, pty)}),
             {YearOfDistPath(pool, y)},
             {<<"disturbance-volume", pool, y>>}),
        LET f == g.files IN
            YearOfDistPath(pool, y) :>
                _track_latest_transition_year(
                    f[DisturbanceVolPath(pool, y)],
                    IF y = Min(a.transitions) THEN <<>>
                    ELSE f[YearOfDistPath(pool, pty)],
                    y))

\* Emissions of (pool, y): the rasters of current_transition_year (cty).
EmissionsTask(g, y, pool, cty, deps) ==
    AddTask(g,
        Task(<<"emissions", pool, y>>, "_calculate_emissions",
             {DisturbanceVolPath(pool, cty), YearOfDistPath(pool, cty),
              HalfLifePath(pool, cty)},
             {EmissionsPath(pool, y)}, deps),
        LET f == g.files IN
            EmissionsPath(pool, y) :>
                _calculate_emissions(f[DisturbanceVolPath(pool, cty)],
                                     f[YearOfDistPath(pool, cty)],
                                     f[HalfLifePath(pool, cty)], y))

\* Net sequestration of (pool, y).
NetSequestrationTask(g, y, pool, cty) ==
    AddTask(g,
        Task(<<"net-sequestration", pool, y>>,
             "_calculate_net_sequestration",
             {AccumulationPath(pool, cty), EmissionsPath(pool, y)},
             {NetSequestrationPath(pool, y)},
             {<<"emissions", pool, y>>}),
        LET f == g.files IN
            NetSequestrationPath(pool, y) :>
                _calculate_net_sequestration(f[AccumulationPath(pool, cty)],
                                             f[EmissionsPath(pool, y)]))

\* A regime switch at every year of the loop, transition year or not.
SwitchRegime_EveryYear(st, a, y) ==
    IF st.cty # y
    THEN [st EXCEPT !.pty = st.cty, !.cty = y]
    ELSE st

\* The regime switch at a transition year: done the first time the year is
\* met, not once per pool.
SwitchRegime(st, a, y) ==
    IF y \in a.transitions /\ st.cty # y
    THEN [st EXCEPT !.pty = st.cty, !.cty = y]
    ELSE st

\* The task handles kept in current_disturbance_vol_tasks and
\* current_year_of_disturbance_tasks after the pool's transition-year tasks.
KeepHandles(h, a, y, pool) ==
    IF y \in a.transitions
    THEN [h EXCEPT
            !.current_disturbance_vol_tasks =
                (pool :> <<"disturbance-volume", pool, y>>) @@ @,
            !.current_year_of_disturbance_tasks =
                (pool :> <<"year-of-disturbance", pool, y>>) @@ @]
    ELSE h

\* The graph after the transition-year tasks of (pool, y), if y is one.
TransitionYearTasks(g, a, y, pool, h, pty) ==
    IF y \in a.transitions
    THEN YearOfDisturbanceTask(DisturbanceVolTask(g, a, y, pool, h),
                               a, y, pool, pty)
    ELSE g

\* The body of `for pool in (POOL_SOIL, POOL_BIOMASS)` for one pool.  st holds
\* the graph (g), current and prior transition year (cty, pty) and the task
\* handles (h).
PoolTasks(st, a, y, pool) ==
    [st EXCEPT
        !.g = NetSequestrationTask(
                EmissionsTask(
                    TransitionYearTasks(StockTask(st.g, a, y, pool, st.h),
                                        a, y, pool, st.h, st.pty),
                    y, pool, st.cty,
                    {KeepHandles(st.h, a, y, pool)
                        .current_disturbance_vol_tasks[pool],
                     KeepHandles(st.h, a, y, pool)
                        .current_year_of_disturbance_tasks[pool]}),
                y, pool, st.cty),
        !.h = KeepHandles(st.h, a, y, pool)]

PoolStep(st, a, y, pool) == PoolTasks(SwitchRegime(st, a, y), a, y, pool)

\* The list built by
\*   for _year in range(current_transition_year, year + 1):
\*       rasters.extend(list(<dict>[year].values()))
\* The dict is indexed by `year`, not `_year`: the two rasters of the loop's
\* current year, once per year of the regime.
RECURSIVE RastersSinceTransition(_, _, _, _)
RastersSinceTransition(rasters, y, _year, last) ==
    IF _year > last THEN <<>>
    ELSE <<Path("intermediate", rasters, POOL_SOIL, y),
           Path("intermediate", rasters, POOL_BIOMASS, y)>>
            \o RastersSinceTransition(rasters, y, _year + 1, last)

ReadAll(f, paths) == [i \in 1..Len(paths) |-> f[paths[i]]]
Range(seq) == {seq[i] : i \in 1..Len(seq)}

\* Total carbon stocks of year y: the soil and biomass stocks of the year and
\* the litter accumulation raster of the regime.
TotalCarbonTask(g, y, cty) ==
    AddTask(g,
        Task(<<"total-carbon-stocks", "", y>>, "_sum_n_rasters",
             {StockPath(POOL_SOIL, y), StockPath(POOL_BIOMASS, y),
              AccumulationPath(POOL_LITTER, cty)},
             {TotalStocksPath(y)},
             {<<"stock", POOL_SOIL, y>>, <<"stock", POOL_BIOMASS, y>>}),
        LET f == g.files IN
            TotalStocksPath(y) :>
                _sum_n_rasters(<<f[StockPath(POOL_SOIL, y)],
                                 f[StockPath(POOL_BIOMASS, y)],
                                 f[AccumulationPath(POOL_LITTER, cty)]>>,
                               FALSE))

ValuePath(y) == Path("intermediate", "valuation", "", y)

\* _calculate_valuation
_calculate_valuation(biomass_sequestration, soil_sequestration, price) ==
    [p \in Pixels |->
        IF biomass_sequestration[p] # NODATA_FLOAT32
           /\ soil_sequestration[p] # NODATA_FLOAT32
        THEN (biomass_sequestration[p] + soil_sequestration[p]) * price
        ELSE NODATA_FLOAT32]

\* The valuation of year y, prices[year] being defined.
ValuationTask(g, a, y) ==
    AddTask(g,
        Task(<<"valuation", "", y>>, "_calculate_valuation",
             {NetSequestrationPath(POOL_BIOMASS, y),
              NetSequestrationPath(POOL_SOIL, y)},
             {ValuePath(y)},
             {<<"net-sequestration", POOL_BIOMASS, y>>,
              <<"net-sequestration", POOL_SOIL, y>>}),
        LET f == g.files IN
            ValuePath(y) :>
                _calculate_valuation(f[NetSequestrationPath(POOL_BIOMASS, y)],
                                     f[NetSequestrationPath(POOL_SOIL, y)],
                                     prices(a)[y]))

\* `if 'do_economic_analysis' in args and args['do_economic_analysis']`:
\* prices[year] is looked up while the arguments of add_task are built, and
\* raises KeyError for a year the table does not hold.
PriceMissing(a, y) ==
    a.do_economic_analysis /\ y \notin DOMAIN prices(a)

Valuation(g, a, y) ==
    IF ~a.do_economic_analysis THEN g
    ELSE IF PriceMissing(a, y) THEN [g EXCEPT !.ok = FALSE]
    ELSE ValuationTask(g, a, y)

EmissionsSummaryPath(cty, y) ==
    IntervalPath("carbon-emissions-between", cty, y + 1)
AccumulationSummaryPath(cty, y) ==
    IntervalPath("carbon-accumulation-between", cty, y + 1)
NetSeqSummaryPath(cty, y) ==
    IntervalPath("total-net-carbon-sequestration-between", cty, y + 1)

\* dependent_task_list=[current_emissions_tasks[pool]]: `pool` is left over
\* from the pool loop (POOL_BIOMASS).
EmissionsSummaryTask(g, y, cty) ==
    AddTask(g,
        Task(<<"emissions-summary", "", y>>, "_sum_n_rasters",
             Range(RastersSinceTransition("emissions", y, cty, y)),
             {EmissionsSummaryPath(cty, y)},
             {<<"emissions", POOL_BIOMASS, y>>}),
        LET f == g.files IN
            EmissionsSummaryPath(cty, y) :>
                _sum_n_rasters(
                    ReadAll(f, RastersSinceTransition("emissions",
                                                      y, cty, y)),
                    FALSE))

AccumulationSummaryTask(g, y, cty) ==
    AddTask(g,
        Task(<<"accumulation-summary", "", y>>,
             "_calculate_accumulation_over_time",
             {AccumulationPath(POOL_SOIL, cty),
              AccumulationPath(POOL_BIOMASS, cty),
              AccumulationPath(POOL_LITTER, cty)},
             {AccumulationSummaryPath(cty, y)}, {}),
        LET f == g.files IN
            AccumulationSummaryPath(cty, y) :>
                _calculate_accumulation_over_time(
                    f[AccumulationPath(POOL_SOIL, cty)],
                    f[AccumulationPath(POOL_BIOMASS, cty)],
                    f[AccumulationPath(POOL_LITTER, cty)],
                    (y + 1) - cty))

NetSeqSummaryTask(g, y, cty) ==
    AddTask(g,
        Task(<<"net-sequestration-summary", "", y>>, "_sum_n_rasters",
             Range(RastersSinceTransition("net-sequestration", y, cty, y)),
             {NetSeqSummaryPath(cty, y)},
             {<<"net-sequestration", POOL_SOIL, y>>,
              <<"net-sequestration", POOL_BIOMASS, y>>}),
        LET f == g.files IN
            NetSeqSummaryPath(cty, y) :>
                _sum_n_rasters(
                    ReadAll(f, RastersSinceTransition("net-sequestration",
                                                      y, cty, y)),
                    FALSE))

\* A summary condition that forgets the last year before the final year.
Summarise_BeforeTransitionsOnly(a, y, last_year) ==
    (y + 1) \in a.transitions

\* `if (year + 1) in transition_years or (year + 1) == final_year`
Summarise(a, y, last_year) ==
    (y + 1) \in a.transitions \/ (y + 1) = last_year

\* The rest of one year of the loop, after both pools.
YearTotals(g, a, y, cty, last_year) ==
    IF Summarise(a, y, last_year)
    THEN NetSeqSummaryTask(
            AccumulationSummaryTask(
                EmissionsSummaryTask(
                    Valuation(TotalCarbonTask(g, y, cty), a, y), y, cty),
                y, cty),
            y, cty)
    ELSE Valuation(TotalCarbonTask(g, y, cty), a, y)

\* The loop body for one year: both pools, then the totals.
YearBody(st, a, y, last_year) ==
    [st EXCEPT !.g = YearTotals(st.g, a, y, st.cty, last_year)]

\* Both pools of one year, before the totals.
YearPools(st, a, y) ==
    PoolStep(PoolStep(st, a, y, POOL_SOIL), a, y, POOL_BIOMASS)

\* One iteration of `for year in range(first_transition_year, final_year+1)`
\* on the loop's state: st as in PoolTasks, with the summary rasters and
\* the summary tasks collected so far (paths, summaries).
LoopIteration(st, a, y, last_year) ==
    LET body == YearBody(YearPools(st, a, y), a, y, last_year)
    IN  [body EXCEPT
            !.h = [@ EXCEPT
                     !.prior_stock_tasks =
                         [pool \in {POOL_SOIL, POOL_BIOMASS} |->
                             <<"stock", pool, y>>],
                     !.prior_net_sequestration_tasks =
                         [pool \in {POOL_SOIL, POOL_BIOMASS} |->
                             <<"net-sequestration", pool, y>>]],
            !.paths = IF Summarise(a, y, last_year) /\ body.g.ok
                      THEN Append(@, NetSeqSummaryPath(body.cty, y))
                      ELSE @,
            !.summaries = IF Summarise(a, y, last_year) /\ body.g.ok
                          THEN Append(@, <<"net-sequestration-summary", "",
                                           y>>)
                          ELSE @]

\* The loop's state as the run's variables hold it.
LoopState ==
    [g |-> [files |-> files, tasks |-> tasks, ok |-> TRUE],
     cty |-> current_transition_year,
     pty |-> prior_transition_year,
     h |-> handles,
     paths |-> summary_net_sequestration_raster_paths,
     summaries |-> summary_net_sequestration_tasks]

SimulateYear ==
    /\ pc = "years"
    /\ LET pools == YearPools(LoopState, args, year)
           st == LoopIteration(LoopState, args, year, final_year)
       IN  /\ files' = st.g.files
           /\ tasks' = st.g.tasks
           /\ current_transition_year' = st.cty
           /\ prior_transition_year' = st.pty
           /\ handles' = st.h
           /\ summary_net_sequestration_raster_paths' = st.paths
           /\ summary_net_sequestration_tasks' = st.summaries
           /\ IF ~st.g.ok
              THEN /\ Fail(IF PriceMissing(args, year)
                              /\ TotalCarbonTask(pools.g, year,
                                                 pools.cty).ok
                           THEN "KeyError: prices[year]"
                           ELSE "task failed")
                   /\ year' = year
              ELSE /\ error' = ""
                   /\ year' = IF year < final_year THEN year + 1 ELSE year
                   /\ pc' = IF year < final_year THEN "years" ELSE "total"
    /\ UNCHANGED <<call, result, plan, started, completed, cache, executions>>
    /\ UNCHANGED <<args, log, todo, exec_prior_transition_year, final_year>>

\* An all-years total that sums only the most recent summary, as if the
\* list of summaries were overwritten rather than appended to.
TotalNetSequestrationTask_LastSummaryOnly(g, paths, deps) ==
    AddTask(g,
        Task(<<"total-net-sequestration", "", 0>>, "_sum_n_rasters",
             Range(paths), {TotalNetSeqAllYearsPath}, Range(deps)),
        LET f == g.files IN
            TotalNetSeqAllYearsPath :>
                _sum_n_rasters(<<f[paths[Len(paths)]]>>, TRUE))

\* The all-years total after the loop, then close() and join().
TotalNetSequestrationTask(g, paths, deps) ==
    AddTask(g,
        Task(<<"total-net-sequestration", "", 0>>, "_sum_n_rasters",
             Range(paths), {TotalNetSeqAllYearsPath}, Range(deps)),
        LET f == g.files IN
            TotalNetSeqAllYearsPath :> _sum_n_rasters(ReadAll(f, paths), TRUE))

TotalNetSequestration ==
    /\ pc = "total"
    /\ LET g == TotalNetSequestrationTask(
                  [files |-> files, tasks |-> tasks, ok |-> TRUE],
                  summary_net_sequestration_raster_paths,
                  summary_net_sequestration_tasks)
       IN  /\ files' = g.files
           /\ tasks' = g.tasks
           /\ IF g.ok
              THEN /\ pc' = "done"
                   /\ error' = ""
              ELSE Fail("task failed")
    /\ UNCHANGED <<call, result, plan, started, completed, cache, executions>>
    /\ UNCHANGED <<args, log, todo, exec_prior_transition_year, year, final_year,
                   current_transition_year, prior_transition_year, handles,
                   summary_net_sequestration_raster_paths,
                   summary_net_sequestration_tasks>>

\* --------------------------------------------------------------- runs
\* The configurations execute() is called with: an optional analysis year,
\* up to MaxTransitions transition years after the baseline year, and for
\* every snapshot one of LulcRasters.
TransitionYearSets ==
    {t \in SUBSET (Years \ {FirstYear}) : Cardinality(t) <= MaxTransitions}

Init ==
    /\ \E ay \in {NoneVal} \cup Years, ts \in TransitionYearSets :
         \E l \in [{FirstYear} \cup ts -> LulcRasters] :
          \E b \in {NoneVal, FirstYear}, tb \in LandcoverTransitionTables :
            args = [baseline_lulc_year |-> b, analysis_year |-> ay,
                    transitions |-> ts, lulc |-> l,
                    landcover_transitions_table |-> tb,
                    do_economic_analysis |-> FALSE,
                    do_price_table |-> FALSE, price_table |-> <<>>,
                    n_workers |-> -1]
    /\ pc = "start"
    /\ error = ""
    /\ files = <<>>
    /\ tasks = <<>>
    /\ todo = <<>>
    /\ exec_prior_transition_year = NoneVal
    /\ year = NoneVal
    /\ final_year = NoneVal
    /\ current_transition_year = NoneVal
    /\ prior_transition_year = NoneVal
    /\ handles = NoHandles
    /\ summary_net_sequestration_raster_paths = <<>>
    /\ summary_net_sequestration_tasks = <<>>
    /\ log = <<>>
    /\ call = NoCall
    /\ result = NoneVal
    /\ plan = NoPlan
    /\ started = {}
    /\ completed = {}
    /\ cache = {}
    /\ executions = 1

Next ==
    \/ Execute
    \/ ReclassifyTransition
    \/ BeginTransitionAnalysis
    \/ SimulateYear
    \/ TotalNetSequestration

Spec == Init /\ [][Next]_vars

\* --------------------------------------------------- economic analysis
\* The same program run with args['do_economic_analysis'] set: with a base
\* price and an inflation rate, or with a price table that lists every year
\* or only the years up to the middle of the horizon.
PriceTables ==
    {[y \in Years |-> 2],
     [y \in FirstYear..(FirstYear + (Horizon \div 2)) |-> 2]}

EconInit ==
    /\ \E ay \in {NoneVal} \cup Years, ts \in TransitionYearSets :
         \E l \in [{FirstYear} \cup ts -> LulcRasters] :
          \E table \in {<<>>} \cup PriceTables :
            args = [baseline_lulc_year |-> FirstYear, analysis_year |-> ay,
                    transitions |-> ts, lulc |-> l,
                    landcover_transitions_table |->
                        [lulc_classes |-> {"mangrove", "aquaculture"},
                         cells |-> TransitionTable],
                    do_economic_analysis |-> TRUE,
                    n_workers |-> -1,
                    do_price_table |-> table # <<>>,
                    price_table |-> table]
    /\ pc = "start"
    /\ error = ""
    /\ files = <<>>
    /\ tasks = <<>>
    /\ todo = <<>>
    /\ exec_prior_transition_year = NoneVal
    /\ year = NoneVal
    /\ final_year = NoneVal
    /\ current_transition_year = NoneVal
    /\ prior_transition_year = NoneVal
    /\ handles = NoHandles
    /\ summary_net_sequestration_raster_paths = <<>>
    /\ summary_net_sequestration_tasks = <<>>
    /\ log = <<>>
    /\ call = NoCall
    /\ result = NoneVal
    /\ plan = NoPlan
    /\ started = {}
    /\ completed = {}
    /\ cache = {}
    /\ executions = 1

EconSpec == EconInit /\ [][Next]_vars

\* ------------------------------------------------- helpers on their own
\* The helper functions called directly, once each from the initial state,
\* on inputs the pipeline need not produce.
\* Rasters handed to _calculate_emissions: a disturbed volume, a uint16 year
\* of disturbance, a half-life; each may be nodata.
VolumeRasters == [Pixels -> {NODATA_FLOAT32, 0, 6 * Q}]
YearRasters == [Pixels -> {NODATA_UINT16, FirstYear}]
HalfLifeRasters == [Pixels -> {NODATA_FLOAT32, 0, 1}]

\* Rows of a transitions table: up to MaxTransitions rows in file order.
RasterPaths == {"lulc_a.tif", "lulc_b.tif"}
TransitionRows ==
    UNION {[1..n -> (Years \ {FirstYear}) \X RasterPaths] :
             n \in 0..MaxTransitions}

FnInit ==
    /\ args = [baseline_lulc_year |-> NoneVal, analysis_year |-> NoneVal,
               transitions |-> {}, lulc |-> <<>>,
               landcover_transitions_table |->
                   [lulc_classes |-> {"mangrove", "aquaculture"},
                    cells |-> TransitionTable],
               do_economic_analysis |-> FALSE,
               do_price_table |-> FALSE, price_table |-> <<>>,
                    n_workers |-> -1]
    /\ pc = "start"
    /\ error = ""
    /\ files = <<>>
    /\ tasks = <<>>
    /\ todo = <<>>
    /\ exec_prior_transition_year = NoneVal
    /\ year = NoneVal
    /\ final_year = NoneVal
    /\ current_transition_year = NoneVal
    /\ prior_transition_year = NoneVal
    /\ handles = NoHandles
    /\ summary_net_sequestration_raster_paths = <<>>
    /\ summary_net_sequestration_tasks = <<>>
    /\ log = <<>>
    /\ call = NoCall
    /\ result = NoneVal
    /\ plan = NoPlan
    /\ started = {}
    /\ completed = {}
    /\ cache = {}
    /\ executions = 1

FnUnchanged ==
    UNCHANGED <<args, pc, error, files, tasks, todo,
                exec_prior_transition_year, year, final_year,
                current_transition_year, prior_transition_year, handles,
                summary_net_sequestration_raster_paths,
                summary_net_sequestration_tasks, log, plan, started,
                completed, cache, executions>>

CallCalculateEmissions ==
    /\ call = NoCall
    /\ \E volume \in VolumeRasters, year_of_last \in YearRasters,
          half_life \in HalfLifeRasters, current_year \in Years :
            /\ call' = [func |-> "_calculate_emissions",
                        args |-> <<volume, year_of_last, half_life,
                                   current_year>>]
            /\ result' = _calculate_emissions(volume, year_of_last,
                                              half_life, current_year)
    /\ FnUnchanged

CallExtractTransitions ==
    /\ call = NoCall
    /\ \E rows \in TransitionRows :
            /\ call' = [func |-> "_extract_transitions_from_table",
                        args |-> <<rows>>]
            /\ result' = _extract_transitions_from_table(rows)
    /\ FnUnchanged

\* The cells a transition table may hold: empty, the accumulation label,
\* the two disturbance labels and a label that is none of them.
TransitionLabels ==
    {"NaN", "accum", "low-impact-disturb", "high-impact-disturb", "restore"}

\* The transition tables over the classes of the biophysical table.
LabelledTransitionTables ==
    {[lulc_classes |-> {"mangrove", "aquaculture"}, cells |-> cells] :
        cells \in [Codes \X Codes -> TransitionLabels]}

CallReadTransitionMatrix ==
    /\ call = NoCall
    /\ \E table \in LabelledTransitionTables :
            /\ call' = [func |-> "_read_transition_matrix",
                        args |-> <<table>>]
            /\ result' = _read_transition_matrix(table, BiophysicalTable)
    /\ FnUnchanged

\* The rasters _sum_n_rasters is called on: lists of one to three float32
\* rasters, nodata at some pixels.
SummandRasters == [Pixels -> {NODATA_FLOAT32, Q, 2 * Q}]
SummandLists == UNION {[1..n -> SummandRasters] : n \in 1..3}

CallSumNRasters ==
    /\ call = NoCall
    /\ \E rasters \in SummandLists, allow \in BOOLEAN :
            /\ call' = [func |-> "_sum_n_rasters",
                        args |-> <<rasters, allow>>]
            /\ result' = _sum_n_rasters(rasters, allow)
    /\ FnUnchanged

FnNext ==
    \/ CallCalculateEmissions
    \/ CallExtractTransitions
    \/ CallReadTransitionMatrix
    \/ CallSumNRasters

FnSpec == FnInit /\ [][FnNext]_vars

\* ------------------------------------------------------------ claims
Written(path) == path \in DOMAIN files
SoilAndBiomass == {POOL_SOIL, POOL_BIOMASS}
\* The years the loop of execute_transition_analysis has to simulate.
LoopYears(a) ==
    IF a.transitions = {} THEN {}
    ELSE {y \in Min(a.transitions)..FinalYear(a) : TRUE}
\* The regime a simulated year belongs to: the latest transition year not
\* after it.
RegimeOf(a, y) == Max({t \in a.transitions : t <= y})

\* C1 -- Stock accretion law: for soil and biomass and every simulated year
\* y whose stock raster exists, at every pixel where last year's stock and
\* last year's net sequestration are both valid, stock[y] = stock[y-1] +
\* net_sequestration[y-1] (for the first simulated year, y-1 is the year
\* seeded by execute()).
C1_StockAccretion ==
    \A pool \in SoilAndBiomass : \A y \in LoopYears(args) :
        Written(StockPath(pool, y)) =>
            /\ Written(stock_rasters(args, y - 1, pool))
            /\ Written(net_sequestration_rasters(args, y - 1, pool))
            /\ \A p \in Pixels :
                 LET prior == files[stock_rasters(args, y - 1, pool)][p]
                     net == files[net_sequestration_rasters(
                                     args, y - 1, pool)][p]
                 IN  (prior # NODATA_FLOAT32 /\ net # NODATA_FLOAT32) =>
                        files[StockPath(pool, y)][p] = prior + net

\* C1 witness: a stock raster of a year after the first simulated year whose
\* pixel grew or shrank by a valid, non-zero net sequestration.
C1_Witness ==
    \E pool \in SoilAndBiomass : \E y \in LoopYears(args) : \E p \in Pixels :
        /\ y > Min(args.transitions)
        /\ Written(StockPath(pool, y))
        /\ files[StockPath(pool, y - 1)][p] # NODATA_FLOAT32
        /\ files[NetSequestrationPath(pool, y - 1)][p] # NODATA_FLOAT32
        /\ files[NetSequestrationPath(pool, y - 1)][p] # 0
        /\ files[StockPath(pool, y)][p] # NODATA_FLOAT32

\* C2 -- Net sequestration is accumulation minus emissions: at every pixel
\* where the regime's accumulation and the year's emissions are both valid,
\* the net-sequestration raster holds accumulation - emissions.
C2_NetIsAccumulationMinusEmissions ==
    \A pool \in SoilAndBiomass : \A y \in LoopYears(args) :
        Written(NetSequestrationPath(pool, y)) =>
            \A p \in Pixels :
                LET acc == files[AccumulationPath(
                                    pool, RegimeOf(args, y))][p]
                    em == files[EmissionsPath(pool, y)][p]
                IN  (acc # NODATA_FLOAT32 /\ em # NODATA_FLOAT32) =>
                       files[NetSequestrationPath(pool, y)][p] = acc - em

\* The decay formula of the emissions of one pixel, dt years after the
\* disturbance of `volume` (dt >= 1, half_life > 0).
Decay(volume, dt, half_life) ==
    (volume * (Pow05(dt - 1, half_life) - Pow05(dt, half_life))) \div Q

\* C3 -- Emissions are the decay of all historically disturbed carbon: a
\* pixel disturbed with volume V > 0 at transition year t1 (half-life > 0)
\* and not disturbed (volume 0) at the next transition year t2 emits, in
\* every year y >= t2 of that regime, the decay of V measured from t1.
C3_HistoricalDisturbanceStillEmits ==
    \A pool \in SoilAndBiomass : \A t1, t2 \in args.transitions :
      \A y \in LoopYears(args) : \A p \in Pixels :
        (/\ t1 < t2 /\ t2 <= y /\ RegimeOf(args, y) = t2
         /\ Written(EmissionsPath(pool, y))
         /\ files[DisturbanceVolPath(pool, t1)][p] # NODATA_FLOAT32
         /\ files[DisturbanceVolPath(pool, t1)][p] > 0
         /\ files[HalfLifePath(pool, t1)][p] > 0
         /\ files[HalfLifePath(pool, t2)][p] > 0
         /\ files[DisturbanceVolPath(pool, t2)][p] = 0
         /\ files[YearOfDistPath(pool, t2)][p] = t1)
        => files[EmissionsPath(pool, y)][p] =
              Decay(files[DisturbanceVolPath(pool, t1)][p], y - t1,
                    files[HalfLifePath(pool, t1)][p])

\* C4 -- Monotonic disturbance year: between the year-of-latest-disturbance
\* rasters of any two transition years t1 < t2, a pixel that is set at t1 is
\* set at t2 to the same or a later year.
C4_DisturbanceYearMonotonic ==
    \A pool \in SoilAndBiomass : \A t1, t2 \in args.transitions :
        (t1 < t2 /\ Written(YearOfDistPath(pool, t1))
                 /\ Written(YearOfDistPath(pool, t2))) =>
            \A p \in Pixels :
                files[YearOfDistPath(pool, t1)][p] # NODATA_UINT16 =>
                    /\ files[YearOfDistPath(pool, t2)][p] # NODATA_UINT16
                    /\ files[YearOfDistPath(pool, t2)][p] >=
                          files[YearOfDistPath(pool, t1)][p]

\* C4 witness: a pixel disturbed at t1 and not disturbed at the later
\* transition year t2 (volume 0 there) that still carries t1 at t2.
C4_Witness ==
    \E pool \in SoilAndBiomass : \E t1, t2 \in args.transitions :
      \E p \in Pixels :
        /\ t1 < t2
        /\ Written(YearOfDistPath(pool, t1))
        /\ Written(YearOfDistPath(pool, t2))
        /\ files[YearOfDistPath(pool, t1)][p] = t1
        /\ files[DisturbanceVolPath(pool, t2)][p] = 0
        /\ files[YearOfDistPath(pool, t2)][p] = t1

\* C5 -- Zero half-life implies zero emissions: in every emissions raster, a
\* pixel whose half-life (of the year's regime) is 0 holds 0.
C5_ZeroHalfLifeZeroEmissions ==
    \A pool \in SoilAndBiomass : \A y \in LoopYears(args) :
        Written(EmissionsPath(pool, y)) =>
            \A p \in Pixels :
                files[HalfLifePath(pool, RegimeOf(args, y))][p] = 0 =>
                    files[EmissionsPath(pool, y)][p] = 0

\* C5 witness: a pixel with half-life 0, a positive disturbed volume and a
\* set year of disturbance, in a year after the disturbance, emitting 0.
C5_Witness ==
    \E pool \in SoilAndBiomass : \E y \in LoopYears(args) : \E p \in Pixels :
        /\ Written(EmissionsPath(pool, y))
        /\ y > RegimeOf(args, y)
        /\ files[HalfLifePath(pool, RegimeOf(args, y))][p] = 0
        /\ files[DisturbanceVolPath(pool, RegimeOf(args, y))][p] > 0
        /\ files[YearOfDistPath(pool, RegimeOf(args, y))][p]
              = RegimeOf(args, y)
        /\ files[EmissionsPath(pool, y)][p] = 0

\* The per-regime net-sequestration summary rasters the run has produced
\* (the baseline-period summary included).
NetSeqSummaries ==
    {path \in DOMAIN files :
        path[2] = "total-net-carbon-sequestration-between"}
RECURSIVE SumOfRasters(_, _)
SumOfRasters(paths, p) ==
    IF paths = {} THEN 0
    ELSE LET path == CHOOSE x \in paths : TRUE
         IN  files[path][p] + SumOfRasters(paths \ {path}, p)

RECURSIVE SumOverYears(_, _, _, _)
SumOverYears(rasters, from, to, p) ==
    IF from > to THEN 0
    ELSE files[Path("intermediate", rasters, POOL_SOIL, from)][p]
           + files[Path("intermediate", rasters, POOL_BIOMASS, from)][p]
           + SumOverYears(rasters, from + 1, to, p)
AllYearsValid(rasters, from, to, p) ==
    \A y \in from..to : \A pool \in SoilAndBiomass :
        files[Path("intermediate", rasters, pool, y)][p] # NODATA_FLOAT32

\* C7 -- Per-regime summaries: the emissions summary and the
\* net-sequestration summary of the regime [t, y+1) each equal, at every
\* pixel where all the rasters are valid, the sum over every year t..y and
\* over the pools of that year's own per-pool raster.
C7_RegimeSummaryIsSumOfItsYears ==
    \A t \in args.transitions : \A y \in LoopYears(args) :
        /\ Written(EmissionsSummaryPath(t, y)) =>
             \A p \in Pixels :
                AllYearsValid("emissions", t, y, p) =>
                    files[EmissionsSummaryPath(t, y)][p] =
                        SumOverYears("emissions", t, y, p)
        /\ (y >= t /\ Written(NetSeqSummaryPath(t, y))) =>
             \A p \in Pixels :
                AllYearsValid("net-sequestration", t, y, p) =>
                    files[NetSeqSummaryPath(t, y)][p] =
                        SumOverYears("net-sequestration", t, y, p)

\* C8 -- Prior stock at the first transition: with baseline year b, baseline
\* stock S, yearly accumulation a and first transition year t, the
\* disturbance volume at t is magnitude * (S + (t-1-b)*a) wherever the
\* rasters are valid.
C8_FirstDisturbanceVolume ==
    \A pool \in SoilAndBiomass :
        (args.transitions # {} /\
         Written(DisturbanceVolPath(pool, Min(args.transitions)))) =>
            LET t == Min(args.transitions)
                b == args.baseline_lulc_year
            IN  \A p \in Pixels :
                  LET S == files[StockPath(pool, b)][p]
                      a == files[AccumulationPath(pool, b)][p]
                      magnitude == files[DisturbanceMagnitudePath(pool, t)][p]
                  IN  (S # NODATA_FLOAT32 /\ a # NODATA_FLOAT32
                         /\ magnitude # NODATA_FLOAT32) =>
                        files[DisturbanceVolPath(pool, t)][p] =
                            (magnitude * (S + (t - 1 - b) * a)) \div Q

\* C9 -- No transitions: a run without transitions, with or without an
\* analysis year, completes without error and submits no emissions node.
C9_NoTransitionsRunCompletes ==
    args.transitions = {} =>
        /\ error = ""
        /\ \A i \in 1..Len(tasks) : tasks[i].func # "_calculate_emissions"

\* C10 -- Analysis year before the last transition: such a configuration is
\* rejected with an error before any computation node is submitted.
C10_EarlyAnalysisYearRejected ==
    (/\ args.analysis_year # NoneVal
     /\ args.transitions # {}
     /\ args.analysis_year < Max(args.transitions)
     /\ pc # "start")
    => (error # "" /\ tasks = <<>>)

\* The years the loop of execute_transition_analysis has simulated so far:
\* the years a stock node was submitted for.
SimulatedYears ==
    {tasks[i].task_name[3] :
        i \in {j \in 1..Len(tasks) : tasks[j].task_name[1] = "stock"}}

\* C11 -- Default horizon: without an analysis year the loop simulates only
\* years from the first to the last transition year, and once the loop has
\* ended it has simulated every one of them.
C11_DefaultHorizon ==
    (args.analysis_year = NoneVal /\ args.transitions # {}) =>
        /\ SimulatedYears \subseteq
              Min(args.transitions)..Max(args.transitions)
        /\ pc \in {"total", "done"} =>
              SimulatedYears = Min(args.transitions)..Max(args.transitions)

\* C11 witness: a finished run without analysis year over two transition
\* years that are not adjacent, every year between them simulated.
C11_Witness ==
    /\ pc = "done"
    /\ args.analysis_year = NoneVal
    /\ Cardinality(args.transitions) = 2
    /\ Max(args.transitions) > Min(args.transitions) + 1
    /\ SimulatedYears = Min(args.transitions)..Max(args.transitions)

Pools == {POOL_SOIL, POOL_BIOMASS, POOL_LITTER}
\* The analysis year, when given, is not before the last transition year.
AnalysisYearInOrder ==
    \/ args.analysis_year = NoneVal
    \/ args.transitions = {}
    \/ args.analysis_year >= Max(args.transitions)
\* The submitted nodes that declare a stock raster of (pool, y) as a target.
StockNodes(pool, y) ==
    {i \in 1..Len(tasks) :
        \E path \in tasks[i].targets :
            path[2] = "stocks" /\ path[3] = pool /\ path[4] = y}

\* C12 -- One stock raster per (pool, year): in a finished run, for each of
\* the three pools and every year from the baseline year through the final
\* year, exactly one submitted node has the stock of that pool and year as
\* its output.
C12_OneStockPerPoolAndYear ==
    (pc = "done" /\ AnalysisYearInOrder) =>
        \A pool \in Pools :
            \A y \in args.baseline_lulc_year..FinalYear(args) :
                Cardinality(StockNodes(pool, y)) = 1

\* The litter stock of a simulated year as the specification defines it
\* (litter only accumulates: stock[y] = stock[y-1] + accumulation of the
\* regime of y-1), seeded with the litter stock execute() computes for the
\* year before the first transition.
RECURSIVE LitterStock(_, _)
LitterStock(y, p) ==
    IF y < Min(args.transitions)
    THEN files[stock_rasters(args, Min(args.transitions) - 1, POOL_LITTER)][p]
    ELSE LET prior == LitterStock(y - 1, p)
             accumulation ==
                files[AccumulationPath(POOL_LITTER,
                    IF y - 1 < Min(args.transitions)
                    THEN args.baseline_lulc_year
                    ELSE RegimeOf(args, y - 1))][p]
         IN  IF prior = NODATA_FLOAT32 \/ accumulation = NODATA_FLOAT32
             THEN NODATA_FLOAT32
             ELSE prior + accumulation

\* C13 -- Total carbon stocks: for every simulated year the total raster
\* equals, at every pixel where the three are valid, the soil stock plus the
\* biomass stock plus the litter stock of that year.
C13_TotalIsSumOfPoolStocks ==
    \A y \in LoopYears(args) :
        Written(TotalStocksPath(y)) =>
            \A p \in Pixels :
                (/\ files[StockPath(POOL_SOIL, y)][p] # NODATA_FLOAT32
                 /\ files[StockPath(POOL_BIOMASS, y)][p] # NODATA_FLOAT32
                 /\ LitterStock(y, p) # NODATA_FLOAT32) =>
                    files[TotalStocksPath(y)][p] =
                        files[StockPath(POOL_SOIL, y)][p]
                        + files[StockPath(POOL_BIOMASS, y)][p]
                        + LitterStock(y, p)

\* The rasters execute() writes before the transition analysis when it is run
\* on configuration a: the baseline period, then every transition year.
RECURSIVE ReclassifyAll(_, _, _, _)
ReclassifyAll(g, a, prior, years) ==
    IF years = <<>> THEN g
    ELSE ReclassifyAll(ReclassifyYear(g, a, prior, Head(years)), a,
                       Head(years), Tail(years))
PreparedRasters(a) ==
    ReclassifyAll(ExecuteBaseline(a), a, a.baseline_lulc_year,
                  Sorted(a.transitions)).files
\* The configurations that differ from the run's only in the labels of the
\* transition table.
Relabelled ==
    {[args EXCEPT !.landcover_transitions_table = tb] :
        tb \in {t \in LandcoverTransitionTables :
                  t.lulc_classes =
                     args.landcover_transitions_table.lulc_classes}}

\* C14 -- Litter independence: when the run has ended, every litter raster
\* it has written (litter accumulation and litter stock) is also written,
\* with the same content, by the run that differs only in the labels of the
\* transition table.
C14_LitterIndependence ==
    pc \in {"done", "failed"} => \A other \in Relabelled \ {args} :
        LET prepared == PreparedRasters(other) IN
            \A path \in DOMAIN files :
                path[3] = POOL_LITTER =>
                    /\ path \in DOMAIN prepared
                    /\ prepared[path] = files[path]

\* C14 witness: a finished run with a litter accumulation raster of a
\* transition year, and a relabelled run whose litter rasters exist while
\* one of its soil or biomass rasters differs from this run's.
C14_Witness ==
    /\ pc = "done"
    /\ \E t \in args.transitions :
          Written(AccumulationPath(POOL_LITTER, t))
    /\ \E other \in Relabelled : \E path \in DOMAIN PreparedRasters(other) :
          /\ path[3] \in SoilAndBiomass
          /\ path \in DOMAIN files
          /\ PreparedRasters(other)[path] # files[path]

\* The submitted nodes that declare path among their target paths.
DeclaringNodes(path) ==
    {i \in DOMAIN tasks : path \in tasks[i].targets}

\* C15 -- Each output path is declared as a target by exactly one node of
\* the graph and is written by exactly that node: every raster on disk is a
\* declared target of exactly one submitted node, and no path is declared by
\* two nodes.
C15_OneWriterPerPath ==
    AnalysisYearInOrder =>
        /\ \A path \in DOMAIN files : Cardinality(DeclaringNodes(path)) = 1
        /\ \A i, j \in DOMAIN tasks :
              i # j => tasks[i].targets \cap tasks[j].targets = {}

\* The exceptions execute() raises for a configuration it cannot run.
ConfigurationErrors ==
    {"ValueError: Baseline lulc year is required.", "KeyError: lulc-class"}

\* C16 -- Validation before work: when a run ends with a configuration
\* error, no raster-producing node has been submitted or executed (no node is
\* in the graph and no raster is on disk).
C16_ValidationBeforeWork ==
    (pc = "failed" /\ error \in ConfigurationErrors) =>
        (tasks = <<>> /\ files = <<>>)

\* The (from, to) pairs of the run's transition table whose label is neither
\* empty, nor a disturbance, nor "accum".
UnrecognisedCells ==
    {ft \in Codes \X Codes :
        LET label == args.landcover_transitions_table.cells[ft] IN
            /\ label # "NaN"
            /\ ~EndsWithDisturb(label)
            /\ label # "accum"}

\* C18 -- Unrecognised label: once execute() has read a transition table
\* that holds an unrecognised non-empty label, the four matrices hold
\* nothing for that pair, a warning has been recorded, and the run has gone
\* on (it did not fail in the read).
C18_UnrecognisedLabelWarned ==
    (/\ pc # "start"
     /\ args.baseline_lulc_year # NoneVal
     /\ Matrices(args).raises = ""
     /\ UnrecognisedCells # {})
    => /\ \A ft \in UnrecognisedCells : \A pool \in SoilAndBiomass :
            /\ Matrices(args).disturbance[pool][ft] = 0
            /\ Matrices(args).accumulation[pool][ft] = 0
       /\ \E i \in DOMAIN log : log[i] # ""
       /\ Len(tasks) > 1

\* C19 (as the code has it) -- _calculate_net_sequestration: an output pixel
\* is nodata exactly where the accumulation and the emissions are both
\* nodata; a pixel valid in either input is valid in the output.
C19_NodataOnlyWhereBothAre ==
    \A pool \in SoilAndBiomass : \A y \in LoopYears(args) :
        Written(NetSequestrationPath(pool, y)) =>
            \A p \in Pixels :
                LET acc == files[AccumulationPath(
                                    pool, RegimeOf(args, y))][p]
                    em == files[EmissionsPath(pool, y)][p]
                IN  (files[NetSequestrationPath(pool, y)][p] = NODATA_FLOAT32)
                    <=> (acc = NODATA_FLOAT32 /\ em = NODATA_FLOAT32)

\* C19 witness: a net-sequestration raster with one pixel whose accumulation
\* is valid and whose emissions are nodata, and one pixel where both are
\* nodata.
C19_Witness ==
    \E pool \in SoilAndBiomass : \E y \in LoopYears(args) :
        /\ Written(NetSequestrationPath(pool, y))
        /\ \E p, q \in Pixels :
            /\ files[AccumulationPath(pool, RegimeOf(args, y))][p]
                   # NODATA_FLOAT32
            /\ files[EmissionsPath(pool, y)][p] = NODATA_FLOAT32
            /\ files[NetSequestrationPath(pool, y)][p] # NODATA_FLOAT32
            /\ files[AccumulationPath(pool, RegimeOf(args, y))][q]
                   = NODATA_FLOAT32
            /\ files[EmissionsPath(pool, y)][q] = NODATA_FLOAT32
            /\ files[NetSequestrationPath(pool, y)][q] = NODATA_FLOAT32

\* C19 as stated -- a pixel that is nodata in the accumulation or in the
\* emissions is nodata in the output; a pixel valid in both is not nodata.
C19_NodataWhereEitherIs ==
    \A pool \in SoilAndBiomass : \A y \in LoopYears(args) :
        Written(NetSequestrationPath(pool, y)) =>
            \A p \in Pixels :
                LET acc == files[AccumulationPath(
                                    pool, RegimeOf(args, y))][p]
                    em == files[EmissionsPath(pool, y)][p]
                    out == files[NetSequestrationPath(pool, y)][p]
                IN  /\ (acc = NODATA_FLOAT32 \/ em = NODATA_FLOAT32)
                          => out = NODATA_FLOAT32
                    /\ (acc # NODATA_FLOAT32 /\ em # NODATA_FLOAT32)
                          => out # NODATA_FLOAT32

\* The rows of the transitions table of the call list some year twice.
DuplicateYear(rows) ==
    \E i, j \in DOMAIN rows : i # j /\ rows[i][1] = rows[j][1]

\* C17 -- Duplicate transition years: _extract_transitions_from_table
\* called on a table that lists a transition year twice raises a
\* configuration error; it does not return a dictionary in which one of the
\* rows has replaced the other.
C17_DuplicateYearRejected ==
    (/\ call.func = "_extract_transitions_from_table"
     /\ DuplicateYear(call.args[1]))
    => result.raises # ""

\* C20 -- Nodata propagation in emissions: a pixel that is nodata in the
\* disturbance volume, in the year of latest disturbance or in the
\* half-life passed to _calculate_emissions is nodata in its result,
\* whatever the half-life (0 and nodata included).
C20_EmissionsNodataPropagation ==
    call.func = "_calculate_emissions" =>
        \A p \in Pixels :
            (\/ call.args[1][p] = NODATA_FLOAT32
             \/ call.args[2][p] = NODATA_UINT16
             \/ call.args[3][p] = NODATA_FLOAT32)
            => result[p] = NODATA_FLOAT32

\* C22 -- Disturbance volume: a disturbance-volume raster exists for
\* (pool, year) only if year is a transition year and pool is soil or
\* biomass, it holds magnitude * stock of year-1 (nodata where either is),
\* and once the loop has ended every simulated transition year has one for
\* both pools.
C22_DisturbanceVolumeAtTransitions ==
    /\ \A pool \in Pools : \A y \in Years :
          Written(DisturbanceVolPath(pool, y)) =>
             /\ pool \in SoilAndBiomass
             /\ y \in args.transitions
             /\ \A p \in Pixels :
                  LET magnitude ==
                          files[DisturbanceMagnitudePath(pool, y)][p]
                      stocks == files[stock_rasters(args, y - 1, pool)][p]
                  IN  files[DisturbanceVolPath(pool, y)][p] =
                         IF magnitude = NODATA_FLOAT32
                               \/ stocks = NODATA_FLOAT32
                         THEN NODATA_FLOAT32
                         ELSE (magnitude * stocks) \div Q
    /\ pc \in {"total", "done"} =>
          \A pool \in SoilAndBiomass :
              \A y \in SimulatedYears \cap args.transitions :
                  Written(DisturbanceVolPath(pool, y))

\* C22 witness: a finished run that simulated a year that is no transition
\* year and, at its second transition year, disturbed a positive volume of a
\* stock that had changed since the year before.
C22_Witness ==
    /\ pc = "done"
    /\ SimulatedYears \ args.transitions # {}
    /\ \E pool \in SoilAndBiomass : \E y \in args.transitions :
        \E p \in Pixels :
          /\ y > Min(args.transitions)
          /\ Written(DisturbanceVolPath(pool, y))
          /\ files[DisturbanceVolPath(pool, y)][p] > 0
          /\ files[StockPath(pool, y)][p] # files[StockPath(pool, y - 1)][p]

\* 0.5 ** (n / half_life) in units of 1/Q for any integer n >= -1 and
\* half_life > 0: a negative exponent doubles.
HalfPower(n, half_life) ==
    IF n < 0 THEN Q * (2 ^ ((0 - n) \div half_life))
    ELSE Pow05(n, half_life)

\* C23 -- Emissions formula: at every pixel whose disturbed volume and year
\* of latest disturbance (those of the regime containing y) are valid and
\* whose half-life h is greater than 0, the emissions of year y are
\* volume * (0.5^((dt-1)/h) - 0.5^(dt/h)) with dt = y - year of latest
\* disturbance.
C23_EmissionsFormula ==
    \A pool \in SoilAndBiomass : \A y \in LoopYears(args) :
        Written(EmissionsPath(pool, y)) =>
            \A p \in Pixels :
                LET t == RegimeOf(args, y)
                    volume == files[DisturbanceVolPath(pool, t)][p]
                    year_of_last == files[YearOfDistPath(pool, t)][p]
                    h == files[HalfLifePath(pool, t)][p]
                    dt == y - year_of_last
                IN  (/\ volume # NODATA_FLOAT32
                     /\ year_of_last # NODATA_UINT16
                     /\ h # NODATA_FLOAT32 /\ h > 0)
                    => files[EmissionsPath(pool, y)][p] =
                          (volume * (HalfPower(dt - 1, h)
                                     - HalfPower(dt, h))) \div Q

\* C24 -- Missing baseline year: when baseline_lulc_year is missing, None
\* or not convertible to an integer, execute() raises ValueError before it
\* submits any node: the run has failed with that error, the graph is empty
\* and no raster is on disk.
C24_BaselineYearRequired ==
    (args.baseline_lulc_year = NoneVal /\ pc # "start") =>
        /\ pc = "failed"
        /\ error = "ValueError: Baseline lulc year is required."
        /\ tasks = <<>>
        /\ files = <<>>

\* C24 witness: a run with transitions and no baseline year has raised the
\* ValueError and logged it.
C24_Witness ==
    /\ args.baseline_lulc_year = NoneVal
    /\ args.transitions # {}
    /\ pc = "failed"
    /\ error = "ValueError: Baseline lulc year is required."
    /\ log # <<>>
    /\ tasks = <<>>

\* The submitted nodes of one kind for (pool, y).
NodesOf(kind, pool, y) ==
    {i \in DOMAIN tasks : tasks[i].task_name = <<kind, pool, y>>}

\* C26 -- Regime selection: for every simulated year y and both pools, the
\* emissions node of (pool, y) reads the disturbance-volume, the
\* year-of-disturbance and the half-life raster keyed by the greatest
\* transition year t <= y, and the net-sequestration node of (pool, y)
\* reads the accumulation raster keyed by the same t.
C26_RegimeSelection ==
    \A pool \in SoilAndBiomass : \A y \in LoopYears(args) :
        LET t == RegimeOf(args, y) IN
            /\ \A i \in NodesOf("emissions", pool, y) :
                  tasks[i].reads = {DisturbanceVolPath(pool, t),
                                    YearOfDistPath(pool, t),
                                    HalfLifePath(pool, t)}
            /\ \A i \in NodesOf("net-sequestration", pool, y) :
                  tasks[i].reads = {AccumulationPath(pool, t),
                                    EmissionsPath(pool, y)}

\* C26 witness: a finished run over two transition years in which a year
\* after the second transition, itself no transition year, has its
\* emissions and net-sequestration nodes for both pools.
C26_Witness ==
    /\ pc = "done"
    /\ Cardinality(args.transitions) = 2
    /\ \E y \in LoopYears(args) :
          /\ y > Max(args.transitions)
          /\ \A pool \in SoilAndBiomass :
                /\ NodesOf("emissions", pool, y) # {}
                /\ NodesOf("net-sequestration", pool, y) # {}

\* The [start_year, end_year) intervals of the net-sequestration summaries
\* on disk.
SummaryIntervals == {<<path[4], path[5]>> : path \in NetSeqSummaries}

\* C29 -- Summary intervals partition the horizon: in a finished run whose
\* final year is not before the last transition year, every year from the
\* baseline year up to (not including) the final year lies in exactly one
\* [start_year, end_year) interval of a net-sequestration summary, no
\* interval is empty or reaches outside these years, every interval starts
\* at the baseline year or at a transition year, and each summary is the
\* target of exactly one node.
C29_SummaryIntervalsPartition ==
    (pc = "done" /\ AnalysisYearInOrder) =>
        /\ \A y \in args.baseline_lulc_year..(final_year - 1) :
              Cardinality({iv \in SummaryIntervals :
                              iv[1] <= y /\ y < iv[2]}) = 1
        /\ \A iv \in SummaryIntervals :
              /\ iv[1] < iv[2]
              /\ args.baseline_lulc_year <= iv[1]
              /\ iv[2] <= final_year
              /\ iv[1] \in {args.baseline_lulc_year} \cup args.transitions
              /\ Cardinality(DeclaringNodes(
                    IntervalPath("total-net-carbon-sequestration-between",
                                 iv[1], iv[2]))) = 1

\* C29 witness: a finished run with the baseline period and two later
\* regimes summarised, the last of them ending at an analysis year that is
\* no transition year.
C29_Witness ==
    /\ pc = "done"
    /\ AnalysisYearInOrder
    /\ Cardinality(SummaryIntervals) = 3
    /\ final_year \notin args.transitions
    /\ \E iv \in SummaryIntervals : iv[2] = final_year

\* The year of latest disturbance a pixel had before transition year t: that
\* of the previous transition year, unset at the first.
PreviousYearOfDisturbance(pool, t, p) ==
    IF t = Min(args.transitions) THEN NODATA_UINT16
    ELSE files[YearOfDistPath(
                  pool, Max({u \in args.transitions : u < t}))][p]

\* C30 -- Stable to Decaying: at a transition year T the year of latest
\* disturbance of a pixel is T if and only if its disturbance volume at T is
\* valid and greater than 0; otherwise it is the value of the previous
\* transition year (unset if there is none).
C30_DisturbedIffPositiveVolume ==
    \A pool \in SoilAndBiomass : \A t \in args.transitions :
        Written(YearOfDistPath(pool, t)) =>
            \A p \in Pixels :
                LET volume == files[DisturbanceVolPath(pool, t)][p]
                    disturbed == volume # NODATA_FLOAT32 /\ volume > 0
                IN  /\ (files[YearOfDistPath(pool, t)][p] = t) <=> disturbed
                    /\ ~disturbed =>
                          files[YearOfDistPath(pool, t)][p] =
                              PreviousYearOfDisturbance(pool, t, p)

\* C30 witness: at a second transition year T a pixel disturbed before is
\* disturbed again and takes T, and at some transition year a pixel whose
\* volume is not positive holds just what it held before.
C30_Witness ==
    /\ \E pool \in SoilAndBiomass : \E t \in args.transitions :
        \E p \in Pixels :
          /\ t > Min(args.transitions)
          /\ Written(YearOfDistPath(pool, t))
          /\ files[DisturbanceVolPath(pool, t)][p] > 0
          /\ PreviousYearOfDisturbance(pool, t, p) # NODATA_UINT16
          /\ files[YearOfDistPath(pool, t)][p] = t
    /\ \E pool \in SoilAndBiomass : \E t \in args.transitions :
        \E q \in Pixels :
          /\ Written(YearOfDistPath(pool, t))
          /\ files[DisturbanceVolPath(pool, t)][q] \in {0, NODATA_FLOAT32}
          /\ files[YearOfDistPath(pool, t)][q] =
                PreviousYearOfDisturbance(pool, t, q)

\* The exceptions a run raises for lack of a price.
PriceErrors ==
    {"AttributeError: 'set' object has no attribute 'keys'",
     "KeyError: prices[year]"}

\* C25 -- Valuation: with economic analysis enabled the run never fails for
\* lack of a price, and once the loop has ended every simulated year has a
\* valuation raster computed with a price defined for that year.
C25_ValuationEveryYear ==
    args.do_economic_analysis =>
        /\ ~(pc = "failed" /\ error \in PriceErrors)
        /\ pc \in {"total", "done"} =>
              \A y \in SimulatedYears :
                  /\ y \in DOMAIN prices(args)
                  /\ Written(ValuePath(y))

\* ------------------------------------------------ task graph with workers
\* With n_workers >= 0 add_task() only hands the node to the task graph and
\* the functions run on workers.  The nodes execute() hands over, their
\* order and their arguments are those of the synchronous run: no add_task
\* call depends on a raster's contents.  What the task graph does with the
\* nodes is taken from its interface: a node never begins until all of its
\* declared dependencies have completed, a node runs to completion once
\* started, the main thread blocks only in join(), and a node already
\* computed for the same inputs and parameters is not computed again.

\* The year loop of execute_transition_analysis() from year y on.
RECURSIVE YearLoop(_, _, _, _)
YearLoop(st, a, y, last_year) ==
    IF y > last_year \/ ~st.g.ok THEN st
    ELSE YearLoop(LoopIteration(st, a, y, last_year), a, y + 1, last_year)

\* execute_transition_analysis() on the graph g of execute(): the year loop
\* and the all-years total.
execute_transition_analysis(g, a) ==
    LET st == YearLoop([g |-> g, cty |-> NoneVal, pty |-> NoneVal,
                        h |-> NoHandles,
                        paths |-> <<BaselinePeriodSummaryPath(a)>>,
                        summaries |-> <<>>],
                       a, Min(a.transitions), FinalYear(a))
    IN  IF st.g.ok
        THEN TotalNetSequestrationTask(st.g, st.paths, st.summaries)
        ELSE st.g

\* The add_task calls of one execute(): the nodes in program order, how
\* many of them precede the task_graph.join() between execute()'s own nodes
\* and execute_transition_analysis(), and what the functions write.
Program(a) ==
    LET prepared == ReclassifyAll(ExecuteBaseline(a), a,
                                  a.baseline_lulc_year,
                                  Sorted(a.transitions))
        g == execute_transition_analysis(prepared, a)
    IN  [nodes |-> g.tasks, joined |-> Len(prepared.tasks),
         files |-> g.files]

\* The worker counts: the synchronous mode and two workers.
WorkerCounts == {-1, 2}

\* The configurations run under the task graph: one transition two years
\* after the baseline year, with and without an analysis year after it.
SchedInit ==
    /\ \E ay \in {NoneVal, FirstYear + 3}, n \in WorkerCounts :
        args = [baseline_lulc_year |-> FirstYear, analysis_year |-> ay,
                transitions |-> {FirstYear + 2},
                lulc |-> [y \in {FirstYear, FirstYear + 2} |->
                            CHOOSE r \in LulcRasters : TRUE],
                landcover_transitions_table |->
                    [lulc_classes |-> {"mangrove", "aquaculture"},
                     cells |-> TransitionTable],
                do_economic_analysis |-> FALSE,
                do_price_table |-> FALSE, price_table |-> <<>>,
                n_workers |-> n]
    /\ plan = Program(args)
    /\ pc = "start"
    /\ error = ""
    /\ files = <<>>
    /\ tasks = <<>>
    /\ todo = <<>>
    /\ exec_prior_transition_year = NoneVal
    /\ year = NoneVal
    /\ final_year = NoneVal
    /\ current_transition_year = NoneVal
    /\ prior_transition_year = NoneVal
    /\ handles = NoHandles
    /\ summary_net_sequestration_raster_paths = <<>>
    /\ summary_net_sequestration_tasks = <<>>
    /\ log = <<>>
    /\ call = NoCall
    /\ result = NoneVal
    /\ started = {}
    /\ completed = {}
    /\ cache = {}
    /\ executions = 1

SchedUnchanged ==
    UNCHANGED <<args, todo, exec_prior_transition_year, year, final_year,
                current_transition_year, prior_transition_year, handles,
                summary_net_sequestration_raster_paths,
                summary_net_sequestration_tasks, log, call, result, plan>>

\* What the task graph remembers of a computed node: the node's function
\* and arguments and the contents of the rasters it read.
CacheKey(node, disk) ==
    [node |-> <<node.task_name, node.func, node.reads, node.targets>>,
     inputs |-> [path \in node.reads |-> disk[path]]]

\* A node is taken from the cache when it was computed before from the same
\* inputs and its declared targets are on disk.
Cached(node) ==
    /\ node.reads \subseteq DOMAIN files
    /\ node.targets \subseteq DOMAIN files
    /\ CacheKey(node, files) \in cache

\* The names of the cached nodes among nodes[from..to].
CachedNodes(nodes, from, to) ==
    {nodes[i].task_name : i \in {k \in from..to : Cached(nodes[k])}}

\* execute() up to the task_graph.join() before the transition analysis:
\* its nodes are handed to the task graph.
SubmitBaseline ==
    /\ pc = "start"
    /\ tasks' = SubSeq(plan.nodes, 1, plan.joined)
    /\ completed' = CachedNodes(plan.nodes, 1, plan.joined)
    /\ pc' = "baseline"
    /\ UNCHANGED <<error, files, started, cache, executions>>
    /\ SchedUnchanged

AllCompleted ==
    \A i \in DOMAIN tasks : tasks[i].task_name \in completed

\* task_graph.join() returns and execute_transition_analysis() hands its
\* nodes to the task graph.
JoinAndSubmitAnalysis ==
    /\ pc = "baseline"
    /\ AllCompleted
    /\ tasks' = plan.nodes
    /\ completed' = completed \cup
                       CachedNodes(plan.nodes, plan.joined + 1,
                                   Len(plan.nodes))
    /\ pc' = "analysis"
    /\ UNCHANGED <<error, files, started, cache, executions>>
    /\ SchedUnchanged

\* The nodes a worker may begin: submitted, not begun, every declared
\* dependency completed.  In synchronous mode add_task() runs each node
\* before the next is added, so only the first outstanding node may run.
Startable ==
    {i \in DOMAIN tasks :
        /\ tasks[i].task_name \notin started \cup completed
        /\ tasks[i].deps \subseteq completed
        /\ args.n_workers < 0 =>
              \A j \in 1..(i - 1) : tasks[j].task_name \in completed}

\* A node's function runs and returns.
RunNode ==
    /\ pc \in {"baseline", "analysis"}
    /\ \E i \in Startable :
         /\ tasks[i].reads \subseteq DOMAIN files
         /\ started' = started \cup {tasks[i].task_name}
         /\ completed' = completed \cup {tasks[i].task_name}
         /\ files' = [path \in tasks[i].writes |-> plan.files[path]] @@ files
         /\ cache' = cache \cup {CacheKey(tasks[i], files)}
    /\ UNCHANGED <<pc, error, tasks, executions>>
    /\ SchedUnchanged

\* A node's function runs before a raster it reads has been written, and
\* raises; the run ends with it.
NodeRaises ==
    /\ pc \in {"baseline", "analysis"}
    /\ \E i \in Startable :
         /\ ~(tasks[i].reads \subseteq DOMAIN files)
         /\ started' = started \cup {tasks[i].task_name}
    /\ Fail("task failed")
    /\ UNCHANGED <<files, tasks, completed, cache, executions>>
    /\ SchedUnchanged

\* task_graph.close() and task_graph.join() at the end of the run.
CloseAndJoin ==
    /\ pc = "analysis"
    /\ AllCompleted
    /\ pc' = "done"
    /\ UNCHANGED <<error, files, tasks, started, completed, cache,
                   executions>>
    /\ SchedUnchanged

\* execute() is called a second time with the same arguments on the same
\* workspace.
ExecuteAgain ==
    /\ pc = "done"
    /\ executions = 1
    /\ executions' = 2
    /\ pc' = "start"
    /\ tasks' = <<>>
    /\ started' = {}
    /\ completed' = {}
    /\ UNCHANGED <<error, files, cache>>
    /\ SchedUnchanged

SchedNext ==
    \/ SubmitBaseline
    \/ JoinAndSubmitAnalysis
    \/ RunNode
    \/ NodeRaises
    \/ CloseAndJoin
    \/ ExecuteAgain

SchedSpec == SchedInit /\ [][SchedNext]_vars

\* C27: whichever ready node the workers pick, the function of the stock
\* node of (pool, y), y after the first transition year, does not begin
\* before the stock node and the net sequestration node of (pool, y - 1)
\* have completed, and the function of the net sequestration node of
\* (pool, y) does not begin before the emissions node of (pool, y) has
\* completed.
C27_YearChainOrdering ==
    \A pool \in SoilAndBiomass, y \in Years :
        /\ (y > Min(args.transitions) /\ <<"stock", pool, y>> \in started)
              => {<<"stock", pool, y - 1>>,
                  <<"net-sequestration", pool, y - 1>>} \subseteq completed
        /\ <<"net-sequestration", pool, y>> \in started
              => <<"emissions", pool, y>> \in completed

\* Under two workers the stock and net sequestration nodes of a year after
\* the first transition year have begun.
C27_Witness ==
    /\ args.n_workers = 2
    /\ \E pool \in SoilAndBiomass, y \in Years :
          /\ y > Min(args.transitions)
          /\ <<"stock", pool, y>> \in started
          /\ <<"net-sequestration", pool, y>> \in started

\* The nodes a node waits for: its declared dependencies and theirs.
RECURSIVE Ancestors(_)
Ancestors(names) ==
    LET declared ==
            names \cup UNION {tasks[i].deps :
                                i \in {k \in DOMAIN tasks :
                                          tasks[k].task_name \in names}}
    IN  IF declared = names THEN names ELSE Ancestors(declared)

\* C28: every submitted node that reads a raster another node writes
\* declares that node as a dependency, directly or through its
\* dependencies, or is submitted after the join that node precedes.
C28_DependencyCompleteness ==
    \A i, j \in DOMAIN tasks :
        (i # j /\ tasks[i].reads \cap tasks[j].writes # {})
            => \/ tasks[j].task_name \in Ancestors(tasks[i].deps)
               \/ j <= plan.joined /\ plan.joined < i

\* C21: in a second execute() with the same arguments on the same workspace
\* no node's function runs, every node is completed from the cache, and
\* the rasters on disk stay those the first call left.
C21_CacheReuse ==
    executions = 2 =>
        /\ started = {}
        /\ AllCompleted
        /\ files = plan.files

\* The second call has returned, under workers, with the whole graph
\* submitted.
C21_Witness ==
    /\ executions = 2
    /\ pc = "done"
    /\ args.n_workers = 2
    /\ tasks = plan.nodes
    /\ tasks # <<>>

\* The snapshot year before transition year t: the transition year
\* immediately before it, the baseline year for the first transition.
PrecedingSnapshotYear(a, t) ==
    Max({a.baseline_lulc_year} \cup {u \in a.transitions : u < t})

\* C31 -- From and to landcover of a regime: for every transition year t
\* and both pools, the half-life node of (pool, t) reads the snapshot of the
\* transition year immediately before t (the baseline snapshot for the first
\* transition), the accumulation and disturbance-magnitude nodes read that
\* snapshot and the snapshot of t, and the rasters they write are those
\* derived from these two input snapshots.
C31_FromAndToSnapshots ==
    args.baseline_lulc_year # NoneVal =>
      \A t \in args.transitions : \A pool \in SoilAndBiomass :
        LET from == PrecedingSnapshotYear(args, t) IN
          /\ \A i \in NodesOf("half-life", pool, t) :
                tasks[i].reads = {AlignedPath(args, from)}
          /\ \A i \in NodesOf("accumulation", pool, t)
                         \cup NodesOf("disturbance-magnitude", pool, t) :
                tasks[i].reads = {AlignedPath(args, from),
                                  AlignedPath(args, t)}
          /\ Written(HalfLifePath(pool, t)) =>
                files[HalfLifePath(pool, t)] =
                    reclassify_raster(args.lulc[from], BiophysicalTable,
                                      pool, "half-life")
          /\ Written(AccumulationPath(pool, t)) =>
                files[AccumulationPath(pool, t)] =
                    _reclassify_accumulation_transition(
                        args.lulc[from], args.lulc[t],
                        Matrices(args).accumulation[pool])
          /\ Written(DisturbanceMagnitudePath(pool, t)) =>
                files[DisturbanceMagnitudePath(pool, t)] =
                    _reclassify_disturbance_magnitude(
                        args.lulc[from], args.lulc[t],
                        Matrices(args).disturbance[pool])

\* C31 witness: two transition years with three different snapshots, and
\* the three rasters of the second transition written for both pools.
C31_Witness ==
    /\ args.baseline_lulc_year # NoneVal
    /\ Cardinality(args.transitions) = 2
    /\ args.lulc[args.baseline_lulc_year] # args.lulc[Min(args.transitions)]
    /\ args.lulc[Min(args.transitions)] # args.lulc[Max(args.transitions)]
    /\ \A pool \in SoilAndBiomass :
          /\ Written(HalfLifePath(pool, Max(args.transitions)))
          /\ Written(AccumulationPath(pool, Max(args.transitions)))
          /\ Written(DisturbanceMagnitudePath(pool, Max(args.transitions)))

\* C32 -- Transition matrices by label: after _read_transition_matrix, for
\* every (from, to) pair and both pools, an empty cell leaves the
\* disturbance and the accumulation matrix unpopulated (a sparse matrix
\* reads 0 there); a disturbance label puts the from-class's magnitude for
\* that label in the disturbance matrix and nothing in the accumulation
\* matrix; the accumulation label puts the from-class's yearly accumulation
\* in the accumulation matrix and nothing in the disturbance matrix; and no
\* pair is populated in both a disturbance and an accumulation matrix.
C32_MatricesByLabel ==
    call.func = "_read_transition_matrix" =>
        LET cells == call.args[1].cells IN
        \A ft \in Codes \X Codes : \A pool \in SoilAndBiomass :
            /\ cells[ft] = "NaN" =>
                  /\ result.disturbance[pool][ft] = 0
                  /\ result.accumulation[pool][ft] = 0
            /\ EndsWithDisturb(cells[ft]) =>
                  /\ result.disturbance[pool][ft] =
                        Field(BiophysicalTable[ft[1]], pool, cells[ft])
                  /\ result.accumulation[pool][ft] = 0
            /\ cells[ft] = "accum" =>
                  /\ result.accumulation[pool][ft] =
                        Field(BiophysicalTable[ft[1]], pool,
                              "yearly-accumulation")
                  /\ result.disturbance[pool][ft] = 0
            /\ \A other \in SoilAndBiomass :
                  ~(/\ result.disturbance[pool][ft] # 0
                    /\ result.accumulation[other][ft] # 0)

\* C32 witness: the matrices of a table with an empty cell, a disturbance
\* and an accumulation, populated where the labels say.
C32_Witness ==
    /\ call.func = "_read_transition_matrix"
    /\ {"NaN", "accum", "high-impact-disturb"}
          \subseteq {call.args[1].cells[ft] : ft \in Codes \X Codes}
    /\ \E ft \in Codes \X Codes : result.disturbance[POOL_SOIL][ft] # 0
    /\ \E ft \in Codes \X Codes : result.accumulation[POOL_BIOMASS][ft] # 0

\* The emissions of pool at pixel p summed over the years from..to whose
\* emissions raster is on disk and valid at p.
RECURSIVE EmissionsSince(_, _, _, _)
EmissionsSince(pool, from, to, p) ==
    IF from > to THEN 0
    ELSE (IF /\ Written(EmissionsPath(pool, from))
             /\ files[EmissionsPath(pool, from)][p] # NODATA_FLOAT32
          THEN files[EmissionsPath(pool, from)][p]
          ELSE 0)
         + EmissionsSince(pool, from + 1, to, p)

\* Pixel p is disturbed at transition year t with a valid volume greater
\* than 0 and a half-life greater than 0, and at no other transition year.
DisturbedOnce(pool, t, p) ==
    /\ Written(DisturbanceVolPath(pool, t))
    /\ files[DisturbanceVolPath(pool, t)][p] # NODATA_FLOAT32
    /\ files[DisturbanceVolPath(pool, t)][p] > 0
    /\ files[HalfLifePath(pool, t)][p] # NODATA_FLOAT32
    /\ files[HalfLifePath(pool, t)][p] > 0
    /\ \A u \in args.transitions \ {t} :
          Written(DisturbanceVolPath(pool, u)) =>
              files[DisturbanceVolPath(pool, u)][p] \in {0, NODATA_FLOAT32}

\* C33 -- Emissions never exceed what was disturbed: for a pixel disturbed
\* once, with volume V at transition year T and half-life greater than 0,
\* the emissions of every simulated year from T on (the transition year
\* included) are at most V, and so is their sum over the years simulated so
\* far.
C33_EmissionsBoundedByVolume ==
    \A pool \in SoilAndBiomass : \A t \in args.transitions :
      \A p \in Pixels :
        DisturbedOnce(pool, t, p) =>
            LET V == files[DisturbanceVolPath(pool, t)][p] IN
                /\ \A y \in LoopYears(args) :
                      (/\ y >= t
                       /\ Written(EmissionsPath(pool, y))
                       /\ files[EmissionsPath(pool, y)][p] # NODATA_FLOAT32)
                      => files[EmissionsPath(pool, y)][p] <= V
                /\ EmissionsSince(pool, t, FinalYear(args), p) <= V

\* C33 witness: a finished run in which a pixel disturbed once at T has
\* valid emissions in the transition year and in a later year, the later
\* ones greater than 0.
C33_Witness ==
    /\ pc = "done"
    /\ \E pool \in SoilAndBiomass, t \in args.transitions, p \in Pixels :
          /\ DisturbedOnce(pool, t, p)
          /\ Written(EmissionsPath(pool, t))
          /\ files[EmissionsPath(pool, t)][p] # NODATA_FLOAT32
          /\ Written(EmissionsPath(pool, t + 1))
          /\ files[EmissionsPath(pool, t + 1)][p] # NODATA_FLOAT32
          /\ files[EmissionsPath(pool, t + 1)][p] > 0

\* The sum at pixel p of the rasters of the list that are valid there.
RECURSIVE SumOfValid(_, _)
SumOfValid(rasters, p) ==
    IF rasters = <<>> THEN 0
    ELSE (IF Head(rasters)[p] # NODATA_FLOAT32 THEN Head(rasters)[p] ELSE 0)
         + SumOfValid(Tail(rasters), p)

\* C34 -- _sum_n_rasters: with allow_pixel_stacks_with_nodata=True an output
\* pixel is the sum of all the inputs that are valid there, whatever their
\* place in the list, and nodata only when every input is nodata there;
\* with allow_pixel_stacks_with_nodata=False it is nodata exactly when at
\* least one input is nodata there, and otherwise the sum of all inputs.
C34_SumOfValidInputs ==
    call.func = "_sum_n_rasters" =>
        LET rasters == call.args[1]
            allow == call.args[2]
        IN  \A p \in Pixels :
              LET nodata == {i \in DOMAIN rasters :
                               rasters[i][p] = NODATA_FLOAT32}
              IN  IF allow
                  THEN result[p] =
                          (IF nodata = DOMAIN rasters THEN NODATA_FLOAT32
                           ELSE SumOfValid(rasters, p))
                  ELSE result[p] =
                          (IF nodata # {} THEN NODATA_FLOAT32
                           ELSE SumOfValid(rasters, p))

====
